---- MODULE Spec2Model ----
(***************************************************************************)
(* watchdag: the DAG scheduler (dag/scheduler.rs, dag/state_manager.rs),   *)
(* the trigger queue (engine/queue.rs), the pure core runtime              *)
(* (engine/core.rs, engine/event_handlers.rs) driven by the runtime loop   *)
(* (engine/runtime.rs), and the process executor (exec/executor_loop.rs,   *)
(* exec/task_runner.rs).                                                   *)
(***************************************************************************)
EXTENDS Integers, Sequences, FiniteSets, TLC

VARIABLES
    graph,            \* DagGraph: deps and dependents per task (immutable)
    tasks,            \* Scheduler.tasks: name -> TaskInfo (per-run state + history)
    run_counter,      \* Scheduler.run_counter
    current_run_id,   \* Scheduler.current_run_id (NoRun = None)
    queue,            \* TriggerQueue: behaviour, max_runs, runs
    options,          \* RuntimeOptions
    keep_running,     \* CoreStep.keep_running of the last step (runtime loop goes on)
    commands,         \* CoreStep.commands of the last step
    step,             \* SchedulerStep returned by the last scheduler call
    seed,             \* history: the run the last step started, if any: started by
                      \*          a trigger or from the queue, the order its triggers
                      \*          were applied in, the triggers deferred before it
    deferred,         \* history: names recorded into the queue, in order, since
                      \*          the last run was started
    scenario,         \* history: progress through the "last trigger wins" scenario
    run_log,          \* history: the dispatches and first successes of the run
                      \* (SpecFlow), or the last outcome of each task (SpecOutcome)
                      \*          started last, in order
    exec_rx,          \* executor channel of ScheduledTask
    exec_open,        \* some sender of the executor channel is still alive
    exec_hand,        \* the event the executor loop holds while it awaits capacity
                      \* on the runtime channel (<<>> if none)
    active,           \* executor table: name -> ActiveTask
    runners,          \* runner instances (one per spawned run_task)
    runtime_tx,       \* events sent to the runtime by executor and runners
    files,            \* the watched directory: file -> contents
    dir_order,        \* the order read_dir lists the directory in
    notify_rx,        \* paths of the notify events not yet processed
    profiles,         \* TaskWatchProfile per task: watched files, use_hash
    file_cache,       \* FileCache.hashes: file -> hash
    hash_store,       \* HashStore: task -> stored aggregate digest
    snapshot,         \* history: the contents at the time each digest was stored
    mem_store,        \* MemoryHashStore.map: task name -> digest
    hash_file,        \* FileHashStore: the lines of <root>/.watchdag/hashes
    store_hist        \* history: the map the save and prune calls describe, and
                      \*          the names ever saved

schedVars == <<tasks, run_counter, current_run_id>>
coreVars  == <<queue, keep_running, commands>>
histVars  == <<seed, deferred, scenario, run_log>>
execVars  == <<exec_rx, exec_open, exec_hand, active, runners, runtime_tx>>
storeVars == <<mem_store, hash_file, store_hist>>
watchVars == <<files, dir_order, notify_rx, profiles, file_cache, hash_store, snapshot,
               storeVars>>
vars == <<graph, tasks, run_counter, current_run_id, queue, options,
          keep_running, commands, step, seed, deferred, scenario, run_log,
          exec_rx, exec_open, exec_hand, active, runners, runtime_tx,
          files, dir_order, notify_rx, profiles, file_cache, hash_store, snapshot,
          mem_store, hash_file, store_hist>>

----------------------------------------------------------------------------
(* Bounds *)

MaxRun == 2          \* runs started in one behaviour
MaxDeferred == 3     \* triggers recorded into the queue during one run
MaxInst == 3         \* runner instances spawned in one behaviour
MaxChan == 1         \* capacity of the executor channel and of the runtime channel

----------------------------------------------------------------------------
(* Names and values *)

Names == {"A", "B", "C"}      \* task names events may carry
Tasks == DOMAIN tasks         \* the configured tasks (keys of Scheduler.tasks)

NoRun == 0           \* Option<u64>::None; run ids start at 1

Absent == "Absent"   \* run_state == None
Pending == "Pending"
Running == "Running"
DoneSuccess == "DoneSuccess"
DoneFailed == "DoneFailed"
RunStates == {Absent, Pending, Running, DoneSuccess, DoneFailed}

Success == [kind |-> "Success", code |-> 0]
Failed(c) == [kind |-> "Failed", code |-> c]
FailCode == 2
Outcomes == {Success, Failed(FailCode)}

Range(s) == {s[i] : i \in 1..Len(s)}
Perms(S) == {f \in [1..Cardinality(S) -> S] : \A i, j \in 1..Cardinality(S) : f[i] = f[j] => i = j}
(* `let x = value` of the source: the value is computed once, then used *)
Bind(value, Body(_)) == CHOOSE out \in {Body(x) : x \in {value}} : TRUE

NoDup(s) == \A i, j \in 1..Len(s) : s[i] = s[j] => i = j

----------------------------------------------------------------------------
(* DagGraph *)

(* The validated configurations (`after` lists) the model is run on *)
CfgPair     == [A |-> <<>>, B |-> <<"A">>]                     \* A -> B
CfgChain    == [A |-> <<>>, B |-> <<"A">>, C |-> <<"B">>]      \* A -> B -> C
CfgTriangle == [A |-> <<>>, B |-> <<"A">>, C |-> <<"A", "B">>] \* A -> B, {A, B} -> C
CfgFanIn    == [A |-> <<>>, B |-> <<>>, C |-> <<"A", "B">>]    \* two roots into C
CfgFanOut   == [A |-> <<>>, B |-> <<"A">>, C |-> <<"A">>]      \* A -> B, A -> C
CfgLone     == [A |-> <<>>, B |-> <<"A">>, C |-> <<>>]         \* A -> B and a lone root C
CfgUseHash  == [A |-> <<>>, B |-> <<>>]                        \* two independent tasks

DependentSet(d, t) == {u \in DOMAIN d : t \in Range(d[u])}

(* DagGraph::from_config: deps as configured; the dependents of a node are *)
(* pushed in the iteration order of a HashMap, so any order is possible.   *)
from_config(d) ==
    { g \in [deps : {d},
             dependents : [DOMAIN d -> UNION {Perms(S) : S \in SUBSET DOMAIN d}]] :
        \A t \in DOMAIN d : g.dependents[t] \in Perms(DependentSet(d, t)) }

dependencies_of(name) == IF name \in Tasks THEN graph.deps[name] ELSE <<>>
dependents_of(name) == IF name \in Tasks THEN graph.dependents[name] ELSE <<>>

----------------------------------------------------------------------------
(* StateManager; S is the scheduler [tasks, run_counter, current_run_id] *)

RECURSIVE mark_pending_loop(_, _, _)
mark_pending_loop(stack, visited, ts) ==
    IF stack = <<>> THEN ts
    ELSE LET name == stack[Len(stack)]
             rest == SubSeq(stack, 1, Len(stack) - 1)
         IN  IF name \in visited THEN mark_pending_loop(rest, visited, ts)
             ELSE IF name \in Tasks
                  THEN mark_pending_loop(
                           rest \o dependents_of(name),
                           visited \cup {name},
                           IF ts[name].run_state = Absent
                           THEN [ts EXCEPT ![name].run_state = Pending]
                           ELSE ts)
                  ELSE mark_pending_loop(rest, visited \cup {name}, ts)

(* mutant: a triggered task returns to Pending whatever its state in the run *)
mark_task_and_dependents_pending_again(ts, root) ==
    mark_pending_loop(<<root>>, {}, [ts EXCEPT ![root].run_state = Absent])

mark_task_and_dependents_pending(ts, root) == mark_pending_loop(<<root>>, {}, ts)

RECURSIVE deps_satisfied_loop(_, _, _)
deps_satisfied_loop(ts, ds, i) ==
    IF i > Len(ds) THEN TRUE
    ELSE LET dep == ds[i] IN
         IF dep \notin Tasks THEN FALSE
         ELSE CASE ts[dep].run_state = DoneSuccess -> deps_satisfied_loop(ts, ds, i + 1)
                [] ts[dep].run_state = DoneFailed -> FALSE
                [] ts[dep].run_state \in {Pending, Running} -> FALSE
                [] OTHER -> IF ts[dep].last_successful_run = NoRun
                            THEN FALSE
                            ELSE deps_satisfied_loop(ts, ds, i + 1)

(* mutant: a dependency outside the run counts as satisfied whatever its history *)
deps_satisfied_ignoring_history(ts, name) ==
    \A i \in 1..Len(dependencies_of(name)) :
        ts[dependencies_of(name)[i]].run_state \in {DoneSuccess, Absent}

deps_satisfied_for_info(ts, name) == deps_satisfied_loop(ts, dependencies_of(name), 1)

RECURSIVE mark_failed_loop(_, _, _)
mark_failed_loop(stack, ts, newly_failed) ==
    IF stack = <<>> THEN [tasks |-> ts, newly_failed |-> newly_failed]
    ELSE LET name == stack[Len(stack)]
             rest == SubSeq(stack, 1, Len(stack) - 1)
         IN  IF name \in Tasks /\ ts[name].run_state \in {Pending, Running}
             THEN mark_failed_loop(rest \o dependents_of(name),
                                   [ts EXCEPT ![name].run_state = DoneFailed],
                                   Append(newly_failed, name))
             ELSE mark_failed_loop(rest, ts, newly_failed)

mark_dependents_failed(ts, failed_task) ==
    mark_failed_loop(dependents_of(failed_task), ts, <<>>)

ScheduledTask(name, run_id) == [name |-> name, run_id |-> run_id]

(* mutant: every Pending task is taken as ready, dependencies unchecked *)
collect_all_pending(S) ==
    LET candidates == {t \in Tasks : S.tasks[t].run_state = Pending}
    IN  [s |-> [S EXCEPT !.tasks = [t \in Tasks |->
                    IF t \in candidates
                    THEN [S.tasks[t] EXCEPT !.run_state = Running]
                    ELSE S.tasks[t]]],
         ready |-> {ScheduledTask(t, S.current_run_id) : t \in candidates}]

(* mutant: the ready tasks are reported but left Pending *)
collect_ready_unmarked(S) ==
    LET candidates == {t \in Tasks : S.tasks[t].run_state = Pending
                                     /\ deps_satisfied_for_info(S.tasks, t)}
    IN  [s |-> S,
         ready |-> {ScheduledTask(t, S.current_run_id) : t \in candidates}]

collect_new_ready_tasks(S) ==
    LET candidates == {t \in Tasks : S.tasks[t].run_state = Pending
                                     /\ deps_satisfied_for_info(S.tasks, t)}
    IN  [s |-> [S EXCEPT !.tasks = [t \in Tasks |->
                    IF t \in candidates
                    THEN [S.tasks[t] EXCEPT !.run_state = Running]
                    ELSE S.tasks[t]]],
         ready |-> {ScheduledTask(t, S.current_run_id) : t \in candidates}]

(* mutant: only Running tasks keep a run alive *)
all_tasks_terminal_running_only(ts) == ~ \E t \in Tasks : ts[t].run_state = Running

all_tasks_terminal(ts) == ~ \E t \in Tasks : ts[t].run_state \in {Pending, Running}

----------------------------------------------------------------------------
(* Scheduler *)

Sched == [tasks |-> tasks, run_counter |-> run_counter, current_run_id |-> current_run_id]

NoStep == [newly_scheduled |-> {}, newly_failed |-> <<>>, run_just_finished |-> FALSE]

is_idle(S) == S.current_run_id = NoRun

deps_satisfied(name) == deps_satisfied_for_info(tasks, name)

tasks_in_current_run ==
    IF current_run_id = NoRun THEN {}
    ELSE {t \in Tasks : tasks[t].run_state # Absent}

(* mutant: the new run reuses the counter without advancing it *)
start_new_run_same_id(S) ==
    [tasks |-> [t \in Tasks |-> [S.tasks[t] EXCEPT !.run_state = Absent]],
     run_counter |-> S.run_counter,
     current_run_id |-> S.run_counter]

start_new_run(S) ==
    [tasks |-> [t \in Tasks |-> [S.tasks[t] EXCEPT !.run_state = Absent]],
     run_counter |-> S.run_counter + 1,
     current_run_id |-> S.run_counter + 1]

(* mutant: the run is never finalised *)
maybe_finish_run_never(S) == [s |-> S, finished |-> FALSE]

maybe_finish_run(S) ==
    IF S.current_run_id = NoRun THEN [s |-> S, finished |-> FALSE]
    ELSE IF all_tasks_terminal(S.tasks)
         THEN [s |-> [S EXCEPT !.current_run_id = NoRun], finished |-> TRUE]
         ELSE [s |-> S, finished |-> FALSE]

trigger_step_internal(S, task) ==
    Bind(IF S.current_run_id = NoRun THEN start_new_run(S) ELSE S, LAMBDA S1 :
    Bind(IF task \in Tasks
         THEN [S1 EXCEPT !.tasks = mark_task_and_dependents_pending(S1.tasks, task)]
         ELSE S1, LAMBDA S2 :
    Bind(collect_new_ready_tasks(S2), LAMBDA col :
    Bind(maybe_finish_run(col.s), LAMBDA fin :
        [s |-> fin.s,
         step |-> [newly_scheduled |-> col.ready,
                   newly_failed |-> <<>>,
                   run_just_finished |-> fin.finished]]))))

(* mutant: progress marks the task but never finalises the run *)
progress_step_never_finishing(S, task) ==
    IF S.current_run_id = NoRun THEN [s |-> S, step |-> NoStep]
    ELSE IF task \notin Tasks THEN [s |-> S, step |-> NoStep]
    ELSE LET S1 == [S EXCEPT !.tasks[task].run_state = DoneSuccess,
                             !.tasks[task].last_successful_run = S.current_run_id]
             col == collect_new_ready_tasks(S1)
         IN  [s |-> col.s,
              step |-> [newly_scheduled |-> col.ready,
                        newly_failed |-> <<>>,
                        run_just_finished |-> FALSE]]

(* mutant: progress marks the task without recording the run *)
progress_step_unstamped(S, task) ==
    IF S.current_run_id = NoRun THEN [s |-> S, step |-> NoStep]
    ELSE IF task \notin Tasks THEN [s |-> S, step |-> NoStep]
    ELSE LET S1 == [S EXCEPT !.tasks[task].run_state = DoneSuccess]
             col == collect_new_ready_tasks(S1)
             fin == maybe_finish_run(col.s)
         IN  [s |-> fin.s,
              step |-> [newly_scheduled |-> col.ready,
                        newly_failed |-> <<>>,
                        run_just_finished |-> fin.finished]]

progress_step_internal(S, task) ==
    IF S.current_run_id = NoRun THEN [s |-> S, step |-> NoStep]
    ELSE IF task \notin Tasks THEN [s |-> S, step |-> NoStep]
    ELSE Bind([S EXCEPT !.tasks[task].run_state = DoneSuccess,
                        !.tasks[task].last_successful_run = S.current_run_id],
              LAMBDA S1 :
         Bind(collect_new_ready_tasks(S1), LAMBDA col :
         Bind(maybe_finish_run(col.s), LAMBDA fin :
             [s |-> fin.s,
              step |-> [newly_scheduled |-> col.ready,
                        newly_failed |-> <<>>,
                        run_just_finished |-> fin.finished]])))

completion_step_internal(S, task, outcome) ==
    IF S.current_run_id = NoRun THEN [s |-> S, step |-> NoStep]
    ELSE IF task \notin Tasks
         THEN LET fin == maybe_finish_run(S)
              IN  [s |-> fin.s,
                   step |-> [NoStep EXCEPT !.run_just_finished = fin.finished]]
    ELSE IF outcome.kind = "Success"
         THEN Bind([S EXCEPT !.tasks[task].run_state = DoneSuccess,
                             !.tasks[task].last_successful_run = S.current_run_id],
                   LAMBDA S1 :
              Bind(collect_new_ready_tasks(S1), LAMBDA col :
              Bind(maybe_finish_run(col.s), LAMBDA fin :
                  [s |-> fin.s,
                   step |-> [newly_scheduled |-> col.ready,
                             newly_failed |-> <<>>,
                             run_just_finished |-> fin.finished]])))
         ELSE Bind([S EXCEPT !.tasks[task].run_state = DoneFailed,
                             !.tasks[task].last_failed_run = S.current_run_id],
                   LAMBDA S1 :
              Bind(mark_dependents_failed(S1.tasks, task), LAMBDA mf :
              Bind(maybe_finish_run([S1 EXCEPT !.tasks = mf.tasks]), LAMBDA fin :
                  [s |-> fin.s,
                   step |-> [newly_scheduled |-> {},
                             newly_failed |-> <<task>> \o mf.newly_failed,
                             run_just_finished |-> fin.finished]])))

handle_trigger(S, task) ==
    Bind(trigger_step_internal(S, task), LAMBDA r :
        [s |-> r.s, ready |-> r.step.newly_scheduled])
handle_progress(S, task) ==
    Bind(progress_step_internal(S, task), LAMBDA r :
        [s |-> r.s, ready |-> r.step.newly_scheduled])
handle_completion(S, task, outcome) ==
    Bind(completion_step_internal(S, task, outcome), LAMBDA r :
        [s |-> r.s, ready |-> r.step.newly_scheduled])

----------------------------------------------------------------------------
(* TriggerQueue *)

TriggerQueue_new(behaviour, max_runs) ==
    [behaviour |-> behaviour,
     max_runs |-> IF max_runs < 1 THEN 1 ELSE max_runs,
     runs |-> <<>>]

RECURSIVE pop_front_while_over(_, _)
pop_front_while_over(runs, max_runs) ==
    IF Len(runs) > max_runs THEN pop_front_while_over(Tail(runs), max_runs) ELSE runs

(* mutant: Cancel mode merges the trigger into the batch, as Queue mode does *)
record_trigger_merging(q, task) ==
    [q EXCEPT !.runs = IF q.runs # <<>>
                       THEN [q.runs EXCEPT ![Len(q.runs)] = @ \cup {task}]
                       ELSE <<{task}>>]

(* mutant: Queue mode keeps only the latest trigger, as Cancel mode does *)
record_trigger_replacing(q, task) == [q EXCEPT !.runs = <<{task}>>]

(* mutant: Cancel mode keeps the batch it already holds *)
record_trigger_keeping_first(q, task) ==
    IF q.behaviour = "Queue"
    THEN LET merged == IF q.runs # <<>>
                       THEN [q.runs EXCEPT ![Len(q.runs)] = @ \cup {task}]
                       ELSE <<{task}>>
         IN  [q EXCEPT !.runs = pop_front_while_over(merged, q.max_runs)]
    ELSE IF q.runs # <<>> THEN q ELSE [q EXCEPT !.runs = <<{task}>>]

record_trigger(q, task) ==
    IF q.behaviour = "Queue"
    THEN LET merged == IF q.runs # <<>>
                       THEN [q.runs EXCEPT ![Len(q.runs)] = @ \cup {task}]
                       ELSE <<{task}>>
         IN  [q EXCEPT !.runs = pop_front_while_over(merged, q.max_runs)]
    ELSE [q EXCEPT !.runs = <<{task}>>]

drain_pending(q) ==
    [q |-> [q EXCEPT !.runs = <<>>],
     merged |-> UNION Range(q.runs)]

queue_is_empty(q) == q.runs = <<>>

----------------------------------------------------------------------------
(* CoreRuntime event handlers.  `order` is the iteration order of the      *)
(* HashSet of trigger names a new run is seeded from.                      *)

DispatchTasks(ready) == [kind |-> "DispatchTasks", tasks |-> ready]
RequestExit == [kind |-> "RequestExit", tasks |-> {}]

RECURSIVE trigger_each(_, _, _, _)
trigger_each(S, triggers, i, all_ready) ==
    IF i > Len(triggers) THEN [s |-> S, ready |-> all_ready]
    ELSE Bind(handle_trigger(S, triggers[i]),
              LAMBDA r : trigger_each(r.s, triggers, i + 1, all_ready \cup r.ready))

start_new_run_from_triggers(S, triggers) ==
    IF triggers = <<>> THEN [s |-> S, commands |-> <<>>]
    ELSE Bind(start_new_run(S), LAMBDA S1 :
         Bind(trigger_each(S1, triggers, 1, {}), LAMBDA r :
              [s |-> r.s,
               commands |-> IF r.ready # {} THEN <<DispatchTasks(r.ready)>> ELSE <<>>]))

(* mutant: a finished run leaves the queued triggers where they are *)
maybe_start_queued_run_later(S, q, order) ==
    [s |-> S, q |-> q, commands |-> <<>>, seeded |-> <<>>]

maybe_start_queued_run(S, q, order) ==
    IF ~ is_idle(S) THEN [s |-> S, q |-> q, commands |-> <<>>, seeded |-> <<>>]
    ELSE LET d == drain_pending(q) IN
         IF d.merged = {} THEN [s |-> S, q |-> d.q, commands |-> <<>>, seeded |-> <<>>]
         ELSE LET r == start_new_run_from_triggers(S, order)
              IN  [s |-> r.s, q |-> d.q, commands |-> r.commands, seeded |-> order]

trigger_seeds_new_run(S, q, order) ==
    LET d == drain_pending(q)
        r == start_new_run_from_triggers(S, order)
    IN  [s |-> r.s, q |-> d.q, commands |-> r.commands, keep_running |-> TRUE,
         seeded |-> order, recorded |-> FALSE]

trigger_ignored(S, q) ==
    [s |-> S, q |-> q, commands |-> <<>>, keep_running |-> TRUE,
     seeded |-> <<>>, recorded |-> FALSE]

(* mutant: a trigger for a task outside the run is deferred like any other *)
trigger_deferred_instead(S, q, task) ==
    [s |-> S, q |-> record_trigger(q, task), commands |-> <<>>,
     keep_running |-> TRUE, seeded |-> <<>>, recorded |-> TRUE]

trigger_merged_into_run(S, q, task) ==
    LET r == handle_trigger(S, task)
    IN  [s |-> r.s, q |-> q,
         commands |-> IF r.ready # {} THEN <<DispatchTasks(r.ready)>> ELSE <<>>,
         keep_running |-> TRUE, seeded |-> <<>>, recorded |-> FALSE]

(* mutant: a trigger for a task already in the run is dropped, not recorded *)
trigger_dropped(S, q, task) ==
    [s |-> S, q |-> q, commands |-> <<>>,
     keep_running |-> TRUE, seeded |-> <<>>, recorded |-> FALSE]

trigger_recorded(S, q, task) ==
    [s |-> S, q |-> record_trigger(q, task), commands |-> <<>>,
     keep_running |-> TRUE, seeded |-> <<>>, recorded |-> TRUE]

handle_task_trigger(S, q, task, order) ==
    IF is_idle(S) THEN trigger_seeds_new_run(S, q, order)
    ELSE IF task \notin Tasks THEN trigger_ignored(S, q)
    ELSE IF S.tasks[task].run_state = Absent THEN trigger_merged_into_run(S, q, task)
    ELSE trigger_recorded(S, q, task)

handle_task_progress(S, q, task, order) ==
    Bind(handle_progress(S, task), LAMBDA r :
    Bind(maybe_start_queued_run(r.s, q, order), LAMBDA m :
        [s |-> m.s, q |-> m.q,
         commands |-> (IF r.ready # {} THEN <<DispatchTasks(r.ready)>> ELSE <<>>)
                      \o m.commands,
         keep_running |-> TRUE, seeded |-> m.seeded, recorded |-> FALSE]))

handle_task_completion(S, q, opts, task, outcome, order) ==
    Bind(handle_completion(S, task, outcome), LAMBDA r :
    Bind(maybe_start_queued_run(r.s, q, order), LAMBDA m :
    Bind(opts.exit_when_idle /\ is_idle(m.s) /\ queue_is_empty(m.q), LAMBDA exit :
        [s |-> m.s, q |-> m.q,
         commands |-> (IF r.ready # {} THEN <<DispatchTasks(r.ready)>> ELSE <<>>)
                      \o m.commands
                      \o (IF exit THEN <<RequestExit>> ELSE <<>>),
         keep_running |-> ~ exit, seeded |-> m.seeded, recorded |-> FALSE])))

----------------------------------------------------------------------------
(* Runtime::run: one iteration of the loop = CoreRuntime::step on one      *)
(* event.  The loop stops after a step that returned keep_running = false. *)

CoreStep(r) ==
    /\ keep_running
    /\ r.s.run_counter <= MaxRun
    /\ tasks' = r.s.tasks
    /\ run_counter' = r.s.run_counter
    /\ current_run_id' = r.s.current_run_id
    /\ queue' = r.q
    /\ commands' = r.commands
    /\ keep_running' = r.keep_running
    /\ UNCHANGED <<graph, options, step, execVars, watchVars>>

TriggerOrders(task) ==
    Perms(IF is_idle(Sched) THEN drain_pending(queue).merged \cup {task} ELSE {task})
QueuedOrders == Perms(drain_pending(queue).merged)

TaskTriggered(task) ==
    /\ \E order \in TriggerOrders(task) :
          \E r \in {handle_task_trigger(Sched, queue, task, order)} : CoreStep(r)
    /\ UNCHANGED histVars

TaskProgressed(task) ==
    /\ \E order \in QueuedOrders :
          \E r \in {handle_task_progress(Sched, queue, task, order)} : CoreStep(r)
    /\ UNCHANGED histVars

TaskCompleted(task, outcome) ==
    /\ \E order \in QueuedOrders :
          \E r \in {handle_task_completion(Sched, queue, options, task, outcome, order)} : CoreStep(r)
    /\ UNCHANGED histVars

ShutdownRequested ==
    /\ keep_running
    /\ keep_running' = FALSE
    /\ commands' = <<>>
    /\ UNCHANGED <<graph, schedVars, queue, options, step, histVars, execVars, watchVars>>

(* The watched directory and the watcher's stores *)

Files == {"x", "y"}
MaxContent == 1      \* file contents are 0..MaxContent
Contents == 0..MaxContent
FileOrder == <<"x", "y">>     \* the files sorted by path
MaxNotify == 1       \* notify events waiting to be processed
MaxBurst == 3        \* room in the runtime channel for the triggers of the watcher

(* Option<String> of a stored digest *)
NoDigest == [some |-> FALSE, hash |-> <<>>]
SomeDigest(h) == [some |-> TRUE, hash |-> h]

(* FileCache: 0 stands for "no entry" *)
NotCached == 0

(* HashMap<String, String>: a function on the keys present *)
EmptyMap == <<>>

(* MemoryHashStore::new, and a project directory without .watchdag/hashes *)
InitStores ==
    /\ mem_store = EmptyMap
    /\ hash_file = <<>>
    /\ store_hist = [map |-> EmptyMap, saved |-> {}]

(* --once: no watcher is spawned; nothing is watched, cached or stored *)
InitNoWatcher ==
    /\ files = [f \in Files |-> 0]
    /\ dir_order = FileOrder
    /\ notify_rx = <<>>
    /\ profiles = [t \in Tasks |-> [watch |-> {}, use_hash |-> FALSE]]
    /\ file_cache = [f \in Files |-> NotCached]
    /\ hash_store = [t \in Tasks |-> NoDigest]
    /\ snapshot = [t \in Tasks |-> [f \in Files |-> 0]]
    /\ InitStores

InitExecIdle ==
    /\ exec_rx = <<>>
    /\ exec_open = TRUE
    /\ exec_hand = <<>>
    /\ active = <<>>
    /\ runners = <<>>
    /\ runtime_tx = <<>>

(* Scheduler::from_config *)
InitScheduler(cfgs) ==
    /\ \E d \in cfgs :
         /\ graph \in from_config(d)
         /\ tasks = [t \in DOMAIN d |-> [run_state |-> Absent,
                                         last_successful_run |-> NoRun,
                                         last_failed_run |-> NoRun]]
    /\ run_counter = 0
    /\ current_run_id = NoRun

NoSeed == [via |-> "none", order |-> <<>>, from |-> <<>>]

(* CoreRuntime::new *)
InitCore(behaviours, lengths, once) ==
    /\ \E b \in behaviours, n \in lengths : queue = TriggerQueue_new(b, n)
    /\ options \in [exit_when_idle : once]
    /\ keep_running = TRUE
    /\ commands = <<>>
    /\ step = NoStep
    /\ seed = NoSeed
    /\ scenario = "start"
    /\ deferred = <<>>
    /\ run_log = <<>>

Init ==
    /\ InitScheduler({CfgChain, CfgLone})
    /\ InitNoWatcher
    /\ InitCore({"Queue", "Cancel"}, {1}, BOOLEAN)
    /\ InitExecIdle

Next ==
    \/ \E task \in Names : TaskTriggered(task)
    \/ \E task \in Names : TaskProgressed(task)
    \/ \E task \in Names, outcome \in Outcomes : TaskCompleted(task, outcome)
    \/ ShutdownRequested

Spec == Init /\ [][Next]_vars

(* The same runtime on the graph A -> B with the unrelated root C, never   *)
(* exiting when idle.                                                      *)
InitLone ==
    /\ InitScheduler({CfgLone})
    /\ InitNoWatcher
    /\ InitCore({"Queue", "Cancel"}, {1}, {FALSE})
    /\ InitExecIdle

SpecLone == InitLone /\ [][Next]_vars

----------------------------------------------------------------------------
(* The same runtime on the graph A -> B, with the history of the triggers  *)
(* recorded into the queue and of the way each run was seeded.             *)

History(task, r, via) ==
    /\ r.recorded => Len(deferred) < MaxDeferred
    /\ seed' = IF r.seeded # <<>>
               THEN [via |-> via, order |-> r.seeded, from |-> deferred]
               ELSE NoSeed
    /\ deferred' = IF r.recorded THEN Append(deferred, task)
                   ELSE IF r.seeded # <<>> THEN <<>> ELSE deferred
    /\ UNCHANGED run_log

(* The scenario: from the initial state run 1 is started by triggering A   *)
(* ("run1"); while A is executing B is triggered ("B") and then A is       *)
(* triggered ("BA"), both being recorded into the queue; run 1 goes on     *)
(* without further triggers until the step that finishes it starts run 2   *)
(* ("run2"), which lasts until run 2 is over.  Anything else leaves the    *)
(* scenario ("off").                                                       *)
Scenario(event, task, r) ==
    scenario' =
        CASE scenario = "start" /\ event = "trigger" /\ task = "A"
               /\ r.seeded = <<"A">> -> "run1"
          [] scenario = "run1" /\ event = "trigger" /\ task = "B"
               /\ r.recorded /\ tasks["A"].run_state = Running -> "B"
          [] scenario = "B" /\ event = "trigger" /\ task = "A"
               /\ r.recorded /\ tasks["A"].run_state = Running -> "BA"
          [] scenario = "BA" /\ event # "trigger"
               /\ r.s.current_run_id = current_run_id -> "BA"
          [] scenario = "BA" /\ event # "trigger"
               /\ r.seeded # <<>> -> "run2"
          [] scenario = "run2" /\ r.s.current_run_id = current_run_id -> "run2"
          [] OTHER -> "off"

TrigTaskTriggered(task) ==
    \E order \in TriggerOrders(task) :
        \E r \in {handle_task_trigger(Sched, queue, task, order)} :
            CoreStep(r) /\ History(task, r, "trigger") /\ Scenario("trigger", task, r)

TrigTaskProgressed(task) ==
    \E order \in QueuedOrders :
        \E r \in {handle_task_progress(Sched, queue, task, order)} :
            CoreStep(r) /\ History(task, r, "queue") /\ Scenario("progress", task, r)

TrigTaskCompleted(task, outcome) ==
    \E order \in QueuedOrders :
        \E r \in {handle_task_completion(Sched, queue, options, task, outcome, order)} :
            CoreStep(r) /\ History(task, r, "queue") /\ Scenario("completion", task, r)

QueueLengths == {0, 1, 2}

InitTrig ==
    /\ InitScheduler({CfgPair})
    /\ InitNoWatcher
    /\ InitCore({"Queue", "Cancel"}, QueueLengths, {FALSE})
    /\ InitExecIdle

NextTrig ==
    \/ \E task \in Names : TrigTaskTriggered(task)
    \/ \E task \in Names : TrigTaskProgressed(task)
    \/ \E task \in Names, outcome \in Outcomes : TrigTaskCompleted(task, outcome)

SpecTrig == InitTrig /\ [][NextTrig]_vars

----------------------------------------------------------------------------
(* The Scheduler's public API called directly (as the scheduler tests do) *)

ApplySchedBody(r) ==
    /\ r.s.run_counter <= MaxRun
    /\ tasks' = r.s.tasks
    /\ run_counter' = r.s.run_counter
    /\ current_run_id' = r.s.current_run_id
    /\ step' = r.step
    /\ UNCHANGED <<graph, queue, options, coreVars, execVars, watchVars>>

ApplySched(r) == ApplySchedBody(r) /\ UNCHANGED histVars

StartNewRun == ApplySched([s |-> start_new_run(Sched), step |-> NoStep])

StepTrigger(task) == ApplySched(trigger_step_internal(Sched, task))

StepProgress(task) == ApplySched(progress_step_internal(Sched, task))

StepCompletion(task, outcome) == ApplySched(completion_step_internal(Sched, task, outcome))

InitSched ==
    /\ InitScheduler({CfgPair, CfgChain, CfgTriangle, CfgFanIn, CfgFanOut, CfgLone})
    /\ InitNoWatcher
    /\ InitCore({"Queue"}, {1}, {FALSE})
    /\ InitExecIdle

NextSched ==
    \/ StartNewRun
    \/ \E task \in Names : StepTrigger(task)
    \/ \E task \in Names : StepProgress(task)
    \/ \E task \in Names, outcome \in Outcomes : StepCompletion(task, outcome)

SpecSched == InitSched /\ [][NextSched]_vars

(* The same API with the history of the outcomes: run_log keeps, for each  *)
(* name, the terminal state the task reached last ("success" for           *)
(* DoneSuccess, "failed" for DoneFailed, "none" before the first).         *)
OutcomeOrder == <<"A", "B", "C">>

LastOutcome(t) ==
    IF \E k \in DOMAIN run_log : run_log[k].task = t
    THEN run_log[CHOOSE k \in DOMAIN run_log : run_log[k].task = t].ev
    ELSE "none"

OutcomeLog ==
    run_log' = [k \in DOMAIN OutcomeOrder |->
                  [ev |-> IF OutcomeOrder[k] \notin Tasks THEN "none"
                          ELSE IF tasks'[OutcomeOrder[k]].run_state = DoneSuccess THEN "success"
                          ELSE IF tasks'[OutcomeOrder[k]].run_state = DoneFailed THEN "failed"
                          ELSE LastOutcome(OutcomeOrder[k]),
                   task |-> OutcomeOrder[k]]]

ApplyOutcome(r) ==
    ApplySchedBody(r) /\ OutcomeLog /\ UNCHANGED <<seed, deferred, scenario>>

InitOutcome ==
    /\ InitScheduler({CfgPair, CfgChain})
    /\ InitNoWatcher
    /\ InitCore({"Queue"}, {1}, {FALSE})
    /\ InitExecIdle

NextOutcome ==
    \/ ApplyOutcome([s |-> start_new_run(Sched), step |-> NoStep])
    \/ \E task \in Names : ApplyOutcome(trigger_step_internal(Sched, task))
    \/ \E task \in Names : ApplyOutcome(progress_step_internal(Sched, task))
    \/ \E task \in Names, outcome \in Outcomes :
          ApplyOutcome(completion_step_internal(Sched, task, outcome))

SpecOutcome == InitOutcome /\ [][NextOutcome]_vars

----------------------------------------------------------------------------
(* The process executor: the executor loop and the runner instances it     *)
(* spawns, each a Tokio task of its own.  One action is one uninterrupted  *)
(* stretch of one of them, between two awaits.                             *)

(* TaskInfo.rerun / TaskInfo.long_lived of the configured tasks, copied    *)
(* into every ScheduledTask                                                *)
ExecCfg == [A |-> [rerun |-> TRUE,  long_lived |-> FALSE],
            B |-> [rerun |-> FALSE, long_lived |-> TRUE],
            C |-> [rerun |-> FALSE, long_lived |-> FALSE]]

(* run ids of the ScheduledTasks; the executor only logs them *)
ExecRunIds == {1}

SpawnFailed == 0 - 1      \* TaskOutcome::Failed(-1)
MaxLines == 1             \* matching lines waiting unread in a stdout pipe
ExitCodes == {0, FailCode}

outcome_of(code) == IF code = 0 THEN Success ELSE Failed(code)

TaskProgressedEvent(name) == [type |-> "TaskProgressed", task |-> name, from |-> 0]
TaskCompletedEvent(name, outcome, inst) ==
    [type |-> "TaskCompleted", task |-> name, outcome |-> outcome, from |-> inst]

(* is_finished() of the JoinHandle kept in the ActiveTask of `name` *)
handle_is_finished(name) == runners[active[name].inst].pc = "done"

(* tokio::spawn(run_task(..)) with a fresh oneshot cancel channel *)
new_runner(task) ==
    [name |-> task.name, run_id |-> task.run_id, pc |-> "spawned",
     child |-> "none", code |-> 0, cancel_rx |-> "open", unread |-> 0]

(* ExecutorBackend::spawn_ready_tasks: one ScheduledTask enters the channel *)
SpawnReadyTask(name, run_id) ==
    /\ exec_open
    /\ Len(exec_rx) < MaxChan
    /\ exec_rx' = Append(exec_rx, ScheduledTask(name, run_id))
    /\ UNCHANGED <<exec_open, exec_hand, active, runners, runtime_tx>>

(* handle_scheduled_task on the task at the head of the channel *)
HandleScheduledTask ==
    /\ exec_rx # <<>>
    /\ LET task == Head(exec_rx)
           name == task.name
           busy == name \in DOMAIN active /\ ~ handle_is_finished(name)
           inst == Len(runners) + 1
           spawn(rs) ==
               /\ Len(rs) < MaxInst
               /\ runners' = Append(rs, new_runner(task))
               /\ active' = [n \in DOMAIN active \cup {name} |->
                                IF n = name THEN [cancel |-> TRUE, inst |-> inst]
                                ELSE active[n]]
               /\ UNCHANGED runtime_tx
       IN  /\ exec_rx' = Tail(exec_rx)
           /\ IF busy /\ ExecCfg[name].rerun
              THEN spawn(IF active[name].cancel
                         THEN [runners EXCEPT ![active[name].inst].cancel_rx = "sent"]
                         ELSE runners)
              ELSE IF busy /\ ExecCfg[name].long_lived
              THEN /\ Len(runtime_tx) < MaxChan
                   /\ runtime_tx' = Append(runtime_tx, TaskProgressedEvent(name))
                   /\ UNCHANGED <<active, runners>>
              ELSE IF busy
              THEN UNCHANGED <<active, runners, runtime_tx>>
              ELSE spawn(runners)
    /\ UNCHANGED <<exec_open, exec_hand>>

(* the last sender of the executor channel is dropped *)
ExecutorChannelClosed ==
    /\ exec_open
    /\ exec_open' = FALSE
    /\ UNCHANGED exec_hand
    /\ UNCHANGED <<exec_rx, active, runners, runtime_tx>>

(* spawn_executor: rx.recv() returns None, the loop ends and `active` is   *)
(* dropped with the cancel senders it still holds                          *)
ExecutorLoopFinished ==
    /\ ~ exec_open
    /\ exec_rx = <<>>
    /\ active # <<>>
    /\ runners' = [i \in DOMAIN runners |->
                     IF /\ \E n \in DOMAIN active : active[n].inst = i
                        /\ runners[i].cancel_rx = "open"
                     THEN [runners[i] EXCEPT !.cancel_rx = "closed"]
                     ELSE runners[i]]
    /\ active' = <<>>
    /\ UNCHANGED <<exec_rx, exec_open, exec_hand, runtime_tx>>

(* run_task_inner up to the select: cmd.spawn() succeeds *)
RunnerSpawnsChild(i) ==
    /\ runners[i].pc = "spawned"
    /\ runners' = [runners EXCEPT ![i].pc = "select", ![i].child = "alive"]
    /\ UNCHANGED <<exec_rx, exec_open, exec_hand, active, runtime_tx>>

(* cmd.spawn() fails: run_task reports Failed(-1) *)
RunnerSpawnFails(i) ==
    /\ runners[i].pc = "spawned"
    /\ runners' = [runners EXCEPT ![i].pc = "send", ![i].code = SpawnFailed]
    /\ UNCHANGED <<exec_rx, exec_open, exec_hand, active, runtime_tx>>

(* the child process exits on its own; its status is what child.wait()   *)
(* returns, if the runner is still to wait for it                          *)
ChildExits(i, code) ==
    /\ runners[i].child = "alive"
    /\ runners' = [runners EXCEPT ![i].child = "exited",
                                  ![i].code = IF runners[i].pc = "send" THEN @ ELSE code]
    /\ UNCHANGED <<exec_rx, exec_open, exec_hand, active, runtime_tx>>

(* select: the child.wait() arm *)
RunnerChildWaited(i) ==
    /\ runners[i].pc = "select"
    /\ runners[i].child = "exited"
    /\ runners' = [runners EXCEPT ![i].pc = "send"]
    /\ UNCHANGED <<exec_rx, exec_open, exec_hand, active, runtime_tx>>

(* select: child.wait() returns an error: run_task reports Failed(-1) *)
RunnerWaitFails(i) ==
    /\ runners[i].pc = "select"
    /\ runners' = [runners EXCEPT ![i].pc = "send", ![i].code = SpawnFailed]
    /\ UNCHANGED <<exec_rx, exec_open, exec_hand, active, runtime_tx>>

(* a runner that reports and goes on to report again *)
RunnerSendsCompleted_again(i) ==
    /\ runners[i].pc = "send"
    /\ Len(runtime_tx) < MaxChan
    /\ runtime_tx' = Append(runtime_tx,
                            TaskCompletedEvent(runners[i].name,
                                               outcome_of(runners[i].code), i))
    /\ UNCHANGED <<exec_rx, exec_open, exec_hand, active, runners>>

(* runtime_tx.send(TaskCompleted).await, then the runner future finishes *)
RunnerSendsCompleted(i) ==
    /\ runners[i].pc = "send"
    /\ Len(runtime_tx) < MaxChan
    /\ runtime_tx' = Append(runtime_tx,
                            TaskCompletedEvent(runners[i].name,
                                               outcome_of(runners[i].code), i))
    /\ runners' = [runners EXCEPT ![i].pc = "done"]
    /\ UNCHANGED <<exec_rx, exec_open, exec_hand, active>>

(* select: the cancel arm, Ok(()): child.kill().await, no event *)
RunnerCancelled(i) ==
    /\ runners[i].pc = "select"
    /\ runners[i].cancel_rx = "sent"
    /\ runners' = [runners EXCEPT
                     ![i].pc = "done",
                     ![i].child = IF @ = "alive" THEN "killed" ELSE @]
    /\ UNCHANGED <<exec_rx, exec_open, exec_hand, active, runtime_tx>>

(* select: the cancel arm, Err: sender dropped, child killed on drop *)
RunnerCancelClosed(i) ==
    /\ runners[i].pc = "select"
    /\ runners[i].cancel_rx = "closed"
    /\ runners' = [runners EXCEPT
                     ![i].pc = "done",
                     ![i].child = IF @ = "alive" THEN "killed" ELSE @]
    /\ UNCHANGED <<exec_rx, exec_open, exec_hand, active, runtime_tx>>

(* Runtime::run: rx.recv() takes the next event *)
RuntimeReceives ==
    /\ runtime_tx # <<>>
    /\ runtime_tx' = Tail(runtime_tx)
    /\ UNCHANGED <<exec_rx, exec_open, exec_hand, active, runners>>

ExecFrame == UNCHANGED <<graph, schedVars, coreVars, options, step, histVars, watchVars>>

InitExec ==
    /\ InitScheduler({CfgPair})
    /\ InitNoWatcher
    /\ InitCore({"Queue"}, {1}, {FALSE})
    /\ InitExecIdle

NextExec ==
    \/ \E name \in Tasks, run_id \in ExecRunIds : SpawnReadyTask(name, run_id) /\ ExecFrame
    \/ HandleScheduledTask /\ ExecFrame
    \/ ExecutorChannelClosed /\ ExecFrame
    \/ ExecutorLoopFinished /\ ExecFrame
    \/ \E i \in DOMAIN runners : RunnerSpawnsChild(i) /\ ExecFrame
    \/ \E i \in DOMAIN runners : RunnerSpawnFails(i) /\ ExecFrame
    \/ \E i \in DOMAIN runners, code \in ExitCodes : ChildExits(i, code) /\ ExecFrame
    \/ \E i \in DOMAIN runners : RunnerChildWaited(i) /\ ExecFrame
    \/ \E i \in DOMAIN runners : RunnerWaitFails(i) /\ ExecFrame
    \/ \E i \in DOMAIN runners : RunnerSendsCompleted(i) /\ ExecFrame
    \/ \E i \in DOMAIN runners : RunnerCancelled(i) /\ ExecFrame
    \/ \E i \in DOMAIN runners : RunnerCancelClosed(i) /\ ExecFrame
    \/ RuntimeReceives /\ ExecFrame

SpecExec == InitExec /\ [][NextExec]_vars

(* The runner instances of one task that is restarted on every dispatch   *)
(* (rerun = true): every path through run_task, against an executor that  *)
(* cancels, replaces and drops them.                                       *)
RunnerTasks == {"A"}
MaxRunners == 2     \* runner instances spawned in a behaviour of SpecRunner

NextRunner ==
    \/ \E name \in RunnerTasks, run_id \in ExecRunIds : SpawnReadyTask(name, run_id) /\ ExecFrame
    \/ HandleScheduledTask /\ Len(runners') <= MaxRunners /\ ExecFrame
    \/ ExecutorChannelClosed /\ ExecFrame
    \/ ExecutorLoopFinished /\ ExecFrame
    \/ \E i \in DOMAIN runners : RunnerSpawnsChild(i) /\ ExecFrame
    \/ \E i \in DOMAIN runners : RunnerSpawnFails(i) /\ ExecFrame
    \/ \E i \in DOMAIN runners, code \in ExitCodes : ChildExits(i, code) /\ ExecFrame
    \/ \E i \in DOMAIN runners : RunnerChildWaited(i) /\ ExecFrame
    \/ \E i \in DOMAIN runners : RunnerWaitFails(i) /\ ExecFrame
    \/ \E i \in DOMAIN runners : RunnerSendsCompleted(i) /\ ExecFrame
    \/ \E i \in DOMAIN runners : RunnerCancelled(i) /\ ExecFrame
    \/ \E i \in DOMAIN runners : RunnerCancelClosed(i) /\ ExecFrame
    \/ RuntimeReceives /\ ExecFrame

SpecRunner == InitExec /\ [][NextRunner]_vars

(* The whole program on the graph B -> C, where B is a long-lived service  *)
(* that is not restarted (rerun = false) and reports progress on stdout:   *)
(* the watcher sends triggers, the runtime loop feeds each event to the    *)
(* core and sends the dispatched tasks to the executor, the executor       *)
(* spawns runners, and the runners report back.                            *)

CfgService == [B |-> <<>>, C |-> <<"B">>]                      \* B -> C

(* capacity of the executor channel *)
MaxExecChan == 2

TaskTriggeredEvent(name) == [type |-> "TaskTriggered", task |-> name, from |-> 0]

(* the file watcher sends a trigger for a task *)
WatcherTriggers(name) ==
    /\ Len(runtime_tx) < MaxChan
    /\ runtime_tx' = Append(runtime_tx, TaskTriggeredEvent(name))
    /\ UNCHANGED <<exec_rx, exec_open, exec_hand, active, runners>>

(* spawn_stdout_monitor: a line of the child's stdout matches              *)
(* progress_on_stdout                                                      *)
StdoutProgress(i) ==
    /\ runners[i].child = "alive"
    /\ ExecCfg[runners[i].name].long_lived
    /\ Len(runtime_tx) < MaxChan
    /\ runtime_tx' = Append(runtime_tx,
                            [TaskProgressedEvent(runners[i].name) EXCEPT !.from = i])
    /\ UNCHANGED <<exec_rx, exec_open, exec_hand, active, runners>>

(* the child prints a line matching progress_on_stdout: it waits in the    *)
(* stdout pipe for the monitor, a Tokio task of its own                     *)
ChildPrintsLine(i) ==
    /\ runners[i].child = "alive"
    /\ ExecCfg[runners[i].name].long_lived
    /\ runners[i].unread < MaxLines
    /\ runners' = [runners EXCEPT ![i].unread = @ + 1]
    /\ UNCHANGED <<exec_rx, exec_open, exec_hand, active, runtime_tx>>

(* spawn_stdout_monitor: lines.next_line() returns the line, whether the   *)
(* child is still alive or not, and TaskProgressed is sent                  *)
MonitorReadsLine(i) ==
    /\ runners[i].unread > 0
    /\ Len(runtime_tx) < MaxChan
    /\ runtime_tx' = Append(runtime_tx,
                            [TaskProgressedEvent(runners[i].name) EXCEPT !.from = i])
    /\ runners' = [runners EXCEPT ![i].unread = @ - 1]
    /\ UNCHANGED <<exec_rx, exec_open, exec_hand, active>>

(* The runner of a task with progress_on_stdout and its stdout monitor,   *)
(* under every scheduling of the two.                                      *)
StdoutTasks == {"B"}

NextStdout ==
    \/ \E name \in StdoutTasks, run_id \in ExecRunIds : SpawnReadyTask(name, run_id) /\ ExecFrame
    \/ HandleScheduledTask /\ ExecFrame
    \/ \E i \in DOMAIN runners : RunnerSpawnsChild(i) /\ ExecFrame
    \/ \E i \in DOMAIN runners : RunnerSpawnFails(i) /\ ExecFrame
    \/ \E i \in DOMAIN runners : ChildPrintsLine(i) /\ ExecFrame
    \/ \E i \in DOMAIN runners : MonitorReadsLine(i) /\ ExecFrame
    \/ \E i \in DOMAIN runners, code \in ExitCodes : ChildExits(i, code) /\ ExecFrame
    \/ \E i \in DOMAIN runners : RunnerChildWaited(i) /\ ExecFrame
    \/ \E i \in DOMAIN runners : RunnerSendsCompleted(i) /\ ExecFrame
    \/ RuntimeReceives /\ ExecFrame

SpecStdout == InitExec /\ [][NextStdout]_vars

(* CoreRuntime::step *)
CoreRuntime_step(S, q, opts, event, order) ==
    IF event.type = "TaskTriggered" THEN handle_task_trigger(S, q, event.task, order)
    ELSE IF event.type = "TaskProgressed" THEN handle_task_progress(S, q, event.task, order)
    ELSE handle_task_completion(S, q, opts, event.task, event.outcome, order)

(* the tasks of the DispatchTasks commands, in the order they are sent *)
RECURSIVE SendOrders(_)
SendOrders(cmds) ==
    IF cmds = <<>> THEN {<<>>}
    ELSE {first \o rest : first \in Perms(Head(cmds).tasks), rest \in SendOrders(Tail(cmds))}

(* Runtime::run: one iteration of the loop: recv, CoreRuntime::step, then  *)
(* execute_command on each command (spawn_ready_tasks sends every task)    *)
RuntimeLoopBody ==
    /\ keep_running
    /\ runtime_tx # <<>>
    /\ exec_open
    /\ \E event \in {Head(runtime_tx)} :
       \E order \in (IF event.type = "TaskTriggered"
                     THEN TriggerOrders(event.task) ELSE QueuedOrders) :
       \E r \in {CoreRuntime_step(Sched, queue, options, event, order)} :
       \E sent \in SendOrders(r.commands) :
          /\ r.s.run_counter <= MaxRun
          /\ Len(exec_rx) + Len(sent) <= MaxExecChan
          /\ tasks' = r.s.tasks
          /\ run_counter' = r.s.run_counter
          /\ current_run_id' = r.s.current_run_id
          /\ queue' = r.q
          /\ commands' = r.commands
          /\ keep_running' = r.keep_running
          /\ exec_rx' = exec_rx \o sent
    /\ runtime_tx' = Tail(runtime_tx)
    /\ UNCHANGED <<graph, options, step, exec_open, exec_hand, active, runners, watchVars>>

RuntimeLoop == RuntimeLoopBody /\ UNCHANGED histVars

InitSys ==
    /\ InitScheduler({CfgService})
    /\ InitNoWatcher
    /\ InitCore({"Queue"}, {1}, {FALSE})
    /\ InitExecIdle

NextSys ==
    \/ \E name \in Tasks : WatcherTriggers(name) /\ ExecFrame
    \/ RuntimeLoop
    \/ HandleScheduledTask /\ ExecFrame
    \/ \E i \in DOMAIN runners : RunnerSpawnsChild(i) /\ ExecFrame
    \/ \E i \in DOMAIN runners : RunnerSpawnFails(i) /\ ExecFrame
    \/ \E i \in DOMAIN runners : StdoutProgress(i) /\ ExecFrame
    \/ \E i \in DOMAIN runners, code \in ExitCodes : ChildExits(i, code) /\ ExecFrame
    \/ \E i \in DOMAIN runners : RunnerChildWaited(i) /\ ExecFrame
    \/ \E i \in DOMAIN runners : RunnerSendsCompleted(i) /\ ExecFrame

SpecSys == InitSys /\ [][NextSys]_vars

(* The same program with every await on a bounded channel as a step of its *)
(* own.  The runtime sends the tasks of a DispatchTasks command one at a   *)
(* time (spawn_ready_tasks: tx.send(task).await in a loop) and receives    *)
(* its next event only when every command of the step is executed;         *)
(* `commands` keeps what is still to be sent.  The executor loop takes a   *)
(* task off its channel and, for a long-lived task that is already         *)
(* running, awaits capacity on the runtime channel with the synthesised    *)
(* TaskProgressed in hand (exec_hand) before it takes the next task.       *)
(* Both channels have capacity MaxChan.                                    *)
CfgServiceFan == [B |-> <<>>, A |-> <<"B">>, C |-> <<"B">>]       \* B -> A, B -> C

RECURSIVE PendingSends(_)
PendingSends(cmds) ==
    IF cmds = <<>> THEN {}
    ELSE Head(cmds).tasks \cup PendingSends(Tail(cmds))

(* Runtime::run: event_rx.recv() and CoreRuntime::step *)
RuntimeReceivesEvent ==
    /\ keep_running
    /\ PendingSends(commands) = {}
    /\ runtime_tx # <<>>
    /\ exec_open
    /\ \E event \in {Head(runtime_tx)} :
       \E order \in (IF event.type = "TaskTriggered"
                     THEN TriggerOrders(event.task) ELSE QueuedOrders) :
       \E r \in {CoreRuntime_step(Sched, queue, options, event, order)} :
          /\ r.s.run_counter <= MaxRun
          /\ tasks' = r.s.tasks
          /\ run_counter' = r.s.run_counter
          /\ current_run_id' = r.s.current_run_id
          /\ queue' = r.q
          /\ commands' = SelectSeq(r.commands, LAMBDA c : c.tasks # {})
          /\ keep_running' = r.keep_running
    /\ runtime_tx' = Tail(runtime_tx)
    /\ UNCHANGED <<graph, options, step, histVars, watchVars>>
    /\ UNCHANGED <<exec_rx, exec_open, exec_hand, active, runners>>

(* spawn_ready_tasks: one tx.send(task).await completes *)
RuntimeSendsTask ==
    /\ commands # <<>>
    /\ Len(exec_rx) < MaxChan
    /\ \E task \in Head(commands).tasks :
          /\ exec_rx' = Append(exec_rx, task)
          /\ commands' = IF Head(commands).tasks = {task} THEN Tail(commands)
                         ELSE <<[Head(commands) EXCEPT !.tasks = @ \ {task}]>>
                              \o Tail(commands)
    /\ UNCHANGED <<graph, schedVars, queue, keep_running, options, step, histVars, watchVars>>
    /\ UNCHANGED <<exec_open, exec_hand, active, runners, runtime_tx>>

(* the executor loop: rx.recv() and handle_scheduled_task up to its await *)
ExecutorTakesTask ==
    /\ exec_hand = <<>>
    /\ exec_rx # <<>>
    /\ LET task == Head(exec_rx)
           name == task.name
           busy == name \in DOMAIN active /\ ~ handle_is_finished(name)
           inst == Len(runners) + 1
           spawn(rs) ==
               /\ Len(rs) < MaxInst
               /\ runners' = Append(rs, new_runner(task))
               /\ active' = [n \in DOMAIN active \cup {name} |->
                                IF n = name THEN [cancel |-> TRUE, inst |-> inst]
                                ELSE active[n]]
               /\ UNCHANGED exec_hand
       IN  /\ exec_rx' = Tail(exec_rx)
           /\ IF busy /\ ExecCfg[name].rerun
              THEN spawn(IF active[name].cancel
                         THEN [runners EXCEPT ![active[name].inst].cancel_rx = "sent"]
                         ELSE runners)
              ELSE IF busy /\ ExecCfg[name].long_lived
              THEN /\ exec_hand' = <<TaskProgressedEvent(name)>>
                   /\ UNCHANGED <<active, runners>>
              ELSE IF busy
              THEN UNCHANGED <<active, runners, exec_hand>>
              ELSE spawn(runners)
    /\ UNCHANGED <<exec_open, runtime_tx>>

(* runtime_tx.send(TaskProgressed).await completes *)
ExecutorSendsProgress ==
    /\ exec_hand # <<>>
    /\ Len(runtime_tx) < MaxChan
    /\ runtime_tx' = Append(runtime_tx, Head(exec_hand))
    /\ exec_hand' = <<>>
    /\ UNCHANGED <<exec_rx, exec_open, active, runners>>

InitChan ==
    /\ InitScheduler({CfgService, CfgServiceFan})
    /\ InitNoWatcher
    /\ InitCore({"Queue"}, {1}, {FALSE})
    /\ InitExecIdle

NextChan ==
    \/ \E name \in Tasks : WatcherTriggers(name) /\ ExecFrame
    \/ RuntimeReceivesEvent
    \/ RuntimeSendsTask
    \/ ExecutorTakesTask /\ ExecFrame
    \/ ExecutorSendsProgress /\ ExecFrame
    \/ \E i \in DOMAIN runners : RunnerSpawnsChild(i) /\ ExecFrame
    \/ \E i \in DOMAIN runners : RunnerSpawnFails(i) /\ ExecFrame
    \/ \E i \in DOMAIN runners : StdoutProgress(i) /\ ExecFrame
    \/ \E i \in DOMAIN runners, code \in ExitCodes : ChildExits(i, code) /\ ExecFrame
    \/ \E i \in DOMAIN runners : RunnerChildWaited(i) /\ ExecFrame
    \/ \E i \in DOMAIN runners : RunnerSendsCompleted(i) /\ ExecFrame

SpecChan == InitChan /\ [][NextChan]_vars

(* The whole program in --once mode: no watcher, the roots of the DAG are  *)
(* triggered at startup, and the runtime exits when the core returns       *)
(* keep_running = false, dropping the executor channel.                    *)

(* root_tasks: the tasks with no `after` dependencies *)
(* TaskConfig.run_on_own_files_only as the tests configure it: B carries   *)
(* the flag. TaskInfo::from_config does not copy it, and no operation of   *)
(* the scheduler reads it.                                                 *)
run_on_own_files_only(t) == t = "B"

root_tasks == {t \in Tasks : graph.deps[t] = <<>>}

(* Runtime::run returns: the RealExecutorBackend and its sender are dropped *)
RuntimeExits ==
    /\ ~ keep_running
    /\ ExecutorChannelClosed

InitOnce ==
    /\ InitScheduler({CfgService, CfgPair, CfgChain})
    /\ InitNoWatcher
    /\ InitCore({"Queue"}, {1}, {TRUE})
    /\ exec_rx = <<>>
    /\ exec_open = TRUE
    /\ exec_hand = <<>>
    /\ active = <<>>
    /\ runners = <<>>
    /\ \E order \in Perms(root_tasks) :
          runtime_tx = [i \in DOMAIN order |-> TaskTriggeredEvent(order[i])]

NextOnce ==
    \/ RuntimeLoop
    \/ RuntimeExits /\ ExecFrame
    \/ HandleScheduledTask /\ ExecFrame
    \/ ExecutorLoopFinished /\ ExecFrame
    \/ \E i \in DOMAIN runners : RunnerSpawnsChild(i) /\ ExecFrame
    \/ \E i \in DOMAIN runners : RunnerSpawnFails(i) /\ ExecFrame
    \/ \E i \in DOMAIN runners : StdoutProgress(i) /\ ExecFrame
    \/ \E i \in DOMAIN runners, code \in ExitCodes : ChildExits(i, code) /\ ExecFrame
    \/ \E i \in DOMAIN runners : RunnerChildWaited(i) /\ ExecFrame
    \/ \E i \in DOMAIN runners : RunnerSendsCompleted(i) /\ ExecFrame
    \/ \E i \in DOMAIN runners : RunnerCancelClosed(i) /\ ExecFrame

SpecOnce == InitOnce /\ [][NextOnce]_vars

(* The runtime fed with a batch of initial triggers (at startup: the DAG   *)
(* roots) on every graph, with an executor of which only this is assumed:  *)
(* every dispatched task reports one completion, with either outcome.      *)
(* exec_rx holds the dispatched tasks that have not reported yet.          *)

(* a dispatched task ends and its runner sends TaskCompleted *)
ExecutorReports(k, outcome) ==
    /\ k \in DOMAIN exec_rx
    /\ exec_rx' = SubSeq(exec_rx, 1, k - 1) \o SubSeq(exec_rx, k + 1, Len(exec_rx))
    /\ runtime_tx' = Append(runtime_tx, TaskCompletedEvent(exec_rx[k].name, outcome, 0))
    /\ UNCHANGED <<exec_open, exec_hand, active, runners>>

InitTerm ==
    /\ InitScheduler({CfgPair, CfgChain, CfgTriangle, CfgFanIn, CfgFanOut, CfgLone})
    /\ InitNoWatcher
    /\ \E b \in {"Queue", "Cancel"} : queue = TriggerQueue_new(b, 1)
    /\ options = [exit_when_idle |-> FALSE]
    /\ keep_running = TRUE
    /\ commands = <<>>
    /\ step = NoStep
    /\ scenario = "start"
    /\ deferred = <<>>
    /\ run_log = <<>>
    /\ exec_rx = <<>>
    /\ exec_open = TRUE
    /\ exec_hand = <<>>
    /\ active = <<>>
    /\ runners = <<>>
    /\ \E T \in SUBSET Tasks \ {{}} : \E order \in Perms(T) :
          /\ seed = [via |-> "startup", order |-> order, from |-> <<>>]
          /\ runtime_tx = [i \in DOMAIN order |-> TaskTriggeredEvent(order[i])]

NextTerm ==
    \/ RuntimeLoop
    \/ \E k \in DOMAIN exec_rx, outcome \in Outcomes : ExecutorReports(k, outcome) /\ ExecFrame

FairTerm ==
    /\ WF_vars(RuntimeLoop)
    /\ WF_vars(\E k \in DOMAIN exec_rx, outcome \in Outcomes : ExecutorReports(k, outcome) /\ ExecFrame)

SpecTerm == InitTerm /\ [][NextTerm]_vars /\ FairTerm

(* The runtime fed by the watcher at any time, with the executor of which  *)
(* only this is assumed: every dispatched task reports one completion,     *)
(* with either outcome.  run_log records, for the run started last, each   *)
(* task sent to the executor and each task that became DoneSuccess, in     *)
(* the order it happened.                                                   *)
LogEntry(ev, task) == [ev |-> ev, task |-> task]

FlowLog ==
    LET sent == SubSeq(exec_rx', Len(exec_rx) + 1, Len(exec_rx'))
        dispatches == [i \in DOMAIN sent |-> LogEntry("dispatch", sent[i].name)]
        succeeded == {t \in Tasks : /\ tasks'[t].run_state = DoneSuccess
                                    /\ tasks[t].run_state # DoneSuccess}
        successes == IF succeeded = {} THEN <<>>
                     ELSE <<LogEntry("success", CHOOSE t \in succeeded : TRUE)>>
    IN  run_log' = IF run_counter' # run_counter THEN dispatches
                   ELSE run_log \o successes \o dispatches

FlowLoop == RuntimeLoopBody /\ FlowLog /\ UNCHANGED <<seed, deferred, scenario>>

InitFlow ==
    /\ InitScheduler({CfgPair, CfgLone})
    /\ InitNoWatcher
    /\ InitCore({"Queue"}, {1}, {FALSE})
    /\ InitExecIdle

NextFlow ==
    \/ \E name \in Tasks : WatcherTriggers(name) /\ ExecFrame
    \/ FlowLoop
    \/ \E k \in DOMAIN exec_rx, outcome \in Outcomes : ExecutorReports(k, outcome) /\ ExecFrame

SpecFlow == InitFlow /\ [][NextFlow]_vars

----------------------------------------------------------------------------
(* The file watcher (watch/watcher.rs, watch/event_handler.rs) *)

(* compute_file_hash: a digest of the contents, injective on Contents and  *)
(* never the NotCached marker                                              *)
compute_file_hash(path) == files[path] + 1

(* compute_aggregate_hash: the digest of the file hashes in the order      *)
(* given; the sequence itself stands for the digest of the concatenation   *)
compute_aggregate_hash(hashes) == hashes

(* TaskWatchProfile::matches *)
matches(task, path) == path \in profiles[task].watch

(* collect_matching_files: the files of the directory the profile matches  *)
collect_matching_files(task) == SelectSeq(dir_order, LAMBDA f : matches(task, f))

(* FileCache::invalidate *)
invalidate(cache, path) == [cache EXCEPT ![path] = NotCached]

(* FileCache::get_or_compute: the cached hash, or the hash of the file as  *)
(* it is now, which is then cached                                         *)
get_or_compute(cache, path) ==
    IF cache[path] # NotCached
    THEN [hash |-> cache[path], cache |-> cache]
    ELSE [hash |-> compute_file_hash(path),
          cache |-> [cache EXCEPT ![path] = compute_file_hash(path)]]

(* should_trigger_task, the loop over the collected files *)
RECURSIVE hash_files(_, _, _)
hash_files(paths, cache, file_hashes) ==
    IF paths = <<>> THEN [cache |-> cache, file_hashes |-> file_hashes]
    ELSE Bind(get_or_compute(cache, Head(paths)), LAMBDA g :
            hash_files(Tail(paths), g.cache, Append(file_hashes, g.hash)))

(* should_trigger_task: a task without use_hash triggers; a hashing task   *)
(* triggers, and saves the digest, unless the stored digest equals the new *)
W_State(cache, store, snap) == [cache |-> cache, store |-> store, snap |-> snap]

should_trigger_task(W, path, task) ==
    IF ~ profiles[task].use_hash THEN [trigger |-> TRUE, w |-> W]
    ELSE Bind(hash_files(collect_matching_files(task), invalidate(W.cache, path), <<>>),
         LAMBDA h :
         Bind(compute_aggregate_hash(h.file_hashes), LAMBDA new_hash :
            IF W.store[task] = SomeDigest(new_hash)
            THEN [trigger |-> FALSE, w |-> W_State(h.cache, W.store, W.snap)]
            ELSE [trigger |-> TRUE,
                  w |-> W_State(h.cache,
                                [W.store EXCEPT ![task] = SomeDigest(new_hash)],
                                [W.snap EXCEPT ![task] = files])]))

(* has_ancestor_in_matching: walk upwards from the direct deps of the task *)
RECURSIVE ancestor_walk(_, _, _)
ancestor_walk(stack, visited, matching_names) ==
    IF stack = <<>> THEN FALSE
    ELSE LET current == stack[Len(stack)]
             rest == SubSeq(stack, 1, Len(stack) - 1)
         IN  IF current \in visited THEN ancestor_walk(rest, visited, matching_names)
             ELSE IF current \in matching_names THEN TRUE
             ELSE ancestor_walk(rest \o dependencies_of(current),
                                visited \cup {current}, matching_names)

(* has_ancestor_in_matching looking at the direct deps only *)
has_ancestor_direct_only(task, matching_names) ==
    \E d \in Range(dependencies_of(task)) : d \in matching_names

has_ancestor_in_matching(task, matching_names) ==
    ancestor_walk(dependencies_of(task), {}, matching_names)

(* process_file_change, steps 1 to 3 *)
matching_names(path) == {t \in Tasks : matches(t, path)}
root_profiles(path) ==
    {t \in matching_names(path) : ~ has_ancestor_in_matching(t, matching_names(path))}

(* process_file_change, step 4: the selected tasks in the order of the     *)
(* profiles; each is gated and, if it passes, a trigger is sent            *)
RECURSIVE trigger_roots(_, _, _, _)
trigger_roots(selected, path, W, sent) ==
    IF selected = <<>> THEN [w |-> W, sent |-> sent]
    ELSE Bind(should_trigger_task(W, path, Head(selected)), LAMBDA r :
            trigger_roots(Tail(selected), path, r.w,
                          IF r.trigger
                          THEN Append(sent, TaskTriggeredEvent(Head(selected)))
                          ELSE sent))

process_file_change(path, profile_order) ==
    trigger_roots(SelectSeq(profile_order, LAMBDA t : t \in root_profiles(path)),
                  path, W_State(file_cache, hash_store, snapshot), <<>>)

WatchFrame == UNCHANGED <<graph, schedVars, coreVars, options, step, histVars,
                          exec_rx, exec_open, exec_hand, active, runners>>

(* a file of the directory is written; notify reports its path *)
FileWritten(f, c) ==
    /\ Len(notify_rx) < MaxNotify
    /\ files' = [files EXCEPT ![f] = c]
    /\ notify_rx' = Append(notify_rx, f)
    /\ UNCHANGED <<dir_order, profiles, file_cache, hash_store, snapshot, runtime_tx,
                   storeVars>>
    /\ WatchFrame

(* spawn_watcher, the event loop: the next path is processed *)
ProcessFileChange ==
    /\ notify_rx # <<>>
    /\ \E profile_order \in Perms(Tasks) :
       \E r \in {process_file_change(Head(notify_rx), profile_order)} :
          /\ Len(runtime_tx) + Len(r.sent) <= MaxBurst
          /\ runtime_tx' = runtime_tx \o r.sent
          /\ file_cache' = r.w.cache
          /\ hash_store' = r.w.store
          /\ snapshot' = r.w.snap
    /\ notify_rx' = Tail(notify_rx)
    /\ UNCHANGED <<files, dir_order, profiles, storeVars>>
    /\ WatchFrame

(* the runtime takes the next trigger off its channel *)
RuntimeTakes ==
    /\ RuntimeReceives
    /\ UNCHANGED watchVars
    /\ UNCHANGED <<graph, schedVars, coreVars, options, step, histVars>>

NextWatch ==
    \/ \E f \in Files, c \in Contents : FileWritten(f, c)
    \/ ProcessFileChange
    \/ RuntimeTakes

(* the watcher at startup: nothing cached, nothing stored *)
InitWatcher(watchable, hashing) ==
    /\ files = [f \in Files |-> 0]
    /\ dir_order = FileOrder
    /\ notify_rx = <<>>
    /\ profiles \in [Tasks -> [watch : SUBSET watchable, use_hash : hashing]]
    /\ file_cache = [f \in Files |-> NotCached]
    /\ hash_store = [t \in Tasks |-> NoDigest]
    /\ snapshot = [t \in Tasks |-> files]
    /\ InitStores

(* the DAG-aware filter alone: no task hashes *)
InitFilter ==
    /\ InitScheduler({CfgPair, CfgChain, CfgTriangle, CfgFanIn, CfgFanOut, CfgLone})
    /\ InitWatcher({"x"}, {FALSE})
    /\ InitCore({"Queue"}, {1}, {FALSE})
    /\ InitExecIdle

SpecFilter == InitFilter /\ [][NextWatch]_vars

(* hash gating: two independent tasks or A -> B, any profile *)
InitWatch ==
    /\ InitScheduler({CfgUseHash, CfgPair})
    /\ InitWatcher(Files, BOOLEAN)
    /\ InitCore({"Queue"}, {1}, {FALSE})
    /\ InitExecIdle

SpecWatch == InitWatch /\ [][NextWatch]_vars

----------------------------------------------------------------------------
(* The TriggerQueue used on its own (as the queue tests do): triggers are  *)
(* recorded and the queue is drained; `deferred` keeps the names recorded  *)
(* since the last drain and `seed` the Vec the last drain returned.        *)

QueueFrame == UNCHANGED <<graph, schedVars, options, keep_running, commands, step,
                          scenario, run_log, execVars, watchVars>>

QueueRecordTrigger(task) ==
    /\ Len(deferred) < MaxDeferred
    /\ queue' = record_trigger(queue, task)
    /\ deferred' = Append(deferred, task)
    /\ seed' = NoSeed
    /\ QueueFrame

(* drain_pending: the merged HashSet collected into a Vec, in any order *)
QueueDrainPending ==
    /\ \E d \in {drain_pending(queue)} :
       \E order \in Perms(d.merged) :
          /\ queue' = d.q
          /\ seed' = [via |-> "drain", order |-> order, from |-> deferred]
    /\ deferred' = <<>>
    /\ QueueFrame

InitQueue ==
    /\ InitScheduler({CfgPair})
    /\ InitNoWatcher
    /\ InitCore({"Queue", "Cancel"}, QueueLengths, {FALSE})
    /\ InitExecIdle

NextQueue ==
    \/ \E task \in Names : QueueRecordTrigger(task)
    \/ QueueDrainPending

SpecQueue == InitQueue /\ [][NextQueue]_vars

----------------------------------------------------------------------------
(* HashStore (watch/hash.rs): the memory and the file variant, driven by   *)
(* the same save and prune calls.  Strings are sequences of characters.    *)

StoreNames == {<<"a">>, <<"b">>, <<"a", " ", "b">>}   \* task names: a, b and "a b"
Digests == {<<"1">>, <<"2">>}                         \* hex digests

is_whitespace(c) == c = " "

(* HashMap::insert, HashMap::get, HashMap::retain *)
map_insert(map, k, v) ==
    [x \in DOMAIN map \cup {k} |-> IF x = k THEN v ELSE map[x]]
map_get(map, k) == IF k \in DOMAIN map THEN SomeDigest(map[k]) ELSE NoDigest
map_retain(map, keep) == [x \in DOMAIN map \cap keep |-> map[x]]

(* str::trim *)
RECURSIVE trim_start(_)
trim_start(s) ==
    IF s # <<>> /\ is_whitespace(Head(s)) THEN trim_start(Tail(s)) ELSE s
RECURSIVE trim_end(_)
trim_end(s) ==
    IF s # <<>> /\ is_whitespace(s[Len(s)])
    THEN trim_end(SubSeq(s, 1, Len(s) - 1)) ELSE s
trim(s) == trim_end(trim_start(s))

(* str::split_once(char::is_whitespace): the text before and after the     *)
(* first whitespace character, if there is one                             *)
split_once(s) ==
    LET at == {i \in 1..Len(s) : is_whitespace(s[i])}
    IN  IF at = {} THEN [some |-> FALSE, name |-> <<>>, rest |-> <<>>]
        ELSE LET i == CHOOSE i \in at : \A j \in at : i <= j
             IN  [some |-> TRUE,
                  name |-> SubSeq(s, 1, i - 1),
                  rest |-> SubSeq(s, i + 1, Len(s))]

(* load_all_hashes: every non-empty line is split at its first whitespace; *)
(* a line that does not split is skipped; a later line overrides           *)
RECURSIVE load_lines(_, _)
load_lines(lines, map) ==
    IF lines = <<>> THEN map
    ELSE Bind(split_once(trim(Head(lines))), LAMBDA sp :
            load_lines(Tail(lines),
                       IF trim(Head(lines)) # <<>> /\ sp.some
                       THEN map_insert(map, sp.name, trim(sp.rest))
                       ELSE map))

load_all_hashes(file) == load_lines(file, EmptyMap)

(* save_all_hashes: one line "<name> <hash>" per entry, in the iteration   *)
(* order of the HashMap (any order)                                        *)
format_line(name, hash) == name \o <<" ">> \o hash

save_all_hashes(map) ==
    {[i \in 1..Cardinality(DOMAIN map) |-> format_line(order[i], map[order[i]])] :
        order \in Perms(DOMAIN map)}

(* FileHashStore *)
FileHashStore_load(file, task) == map_get(load_all_hashes(file), task)
FileHashStore_save(file, task, hash) ==
    save_all_hashes(map_insert(load_all_hashes(file), task, hash))
FileHashStore_prune(file, active_tasks) ==
    Bind(load_all_hashes(file), LAMBDA map :
        IF Cardinality(DOMAIN map_retain(map, active_tasks)) < Cardinality(DOMAIN map)
        THEN save_all_hashes(map_retain(map, active_tasks))
        ELSE {file})

(* MemoryHashStore *)
MemoryHashStore_load(map, task) == map_get(map, task)
MemoryHashStore_save(map, task, hash) == map_insert(map, task, hash)
MemoryHashStore_prune(map, active_tasks) == map_retain(map, active_tasks)

StoreFrame == UNCHANGED <<graph, schedVars, coreVars, options, step, histVars, execVars,
                          files, dir_order, notify_rx, profiles, file_cache, hash_store,
                          snapshot>>

StoreSave(task, hash) ==
    /\ mem_store' = MemoryHashStore_save(mem_store, task, hash)
    /\ hash_file' \in FileHashStore_save(hash_file, task, hash)
    /\ store_hist' = [map |-> map_insert(store_hist.map, task, hash),
                      saved |-> store_hist.saved \cup {task}]
    /\ StoreFrame

StorePrune(active_tasks) ==
    /\ mem_store' = MemoryHashStore_prune(mem_store, active_tasks)
    /\ hash_file' \in FileHashStore_prune(hash_file, active_tasks)
    /\ store_hist' = [store_hist EXCEPT !.map = map_retain(@, active_tasks)]
    /\ StoreFrame

InitStore ==
    /\ InitScheduler({CfgPair})
    /\ InitNoWatcher
    /\ InitCore({"Queue"}, {1}, {FALSE})
    /\ InitExecIdle

NextStore ==
    \/ \E task \in StoreNames, hash \in Digests : StoreSave(task, hash)
    \/ \E active_tasks \in SUBSET StoreNames : StorePrune(active_tasks)

SpecStore == InitStore /\ [][NextStore]_vars

----------------------------------------------------------------------------
(* should_trigger_task with the failures it handles.  `fault` names the    *)
(* step that fails in this call: enumerating the files, locking the file   *)
(* cache, hashing a file (the first one read from disk), locking the hash  *)
(* store, loading the stored digest, saving the new one, or a panic of the *)
(* blocking job.                                                           *)
Faults == {"none", "collect", "cache_lock", "hash", "store_lock", "load", "save", "panic"}

(* the hash loop when compute_file_hash fails: it stops at the first file  *)
(* that is not cached                                                      *)
RECURSIVE hash_files_failing(_, _, _)
hash_files_failing(paths, cache, file_hashes) ==
    IF paths = <<>> THEN [failed |-> FALSE, cache |-> cache, file_hashes |-> file_hashes]
    ELSE IF cache[Head(paths)] = NotCached
         THEN [failed |-> TRUE, cache |-> cache, file_hashes |-> file_hashes]
    ELSE hash_files_failing(Tail(paths), cache, Append(file_hashes, cache[Head(paths)]))

(* a should_trigger_task that fails closed: no trigger when the stored     *)
(* digest cannot be loaded                                                 *)
should_trigger_task_failing_closed(W, path, task, fault) ==
    IF ~ profiles[task].use_hash THEN [trigger |-> TRUE, w |-> W]
    ELSE IF fault = "load" THEN [trigger |-> FALSE, w |-> W]
    ELSE should_trigger_task(W, path, task)

should_trigger_task_or_fail(W, path, task, fault) ==
    IF ~ profiles[task].use_hash THEN [trigger |-> TRUE, w |-> W]
    ELSE IF fault \in {"collect", "cache_lock", "panic"} THEN [trigger |-> TRUE, w |-> W]
    ELSE Bind(IF fault = "hash"
              THEN hash_files_failing(collect_matching_files(task),
                                      invalidate(W.cache, path), <<>>)
              ELSE [failed |-> FALSE] @@
                   hash_files(collect_matching_files(task), invalidate(W.cache, path), <<>>),
         LAMBDA h :
         IF h.failed \/ fault \in {"store_lock", "load"}
         THEN [trigger |-> TRUE, w |-> W_State(h.cache, W.store, W.snap)]
         ELSE Bind(compute_aggregate_hash(h.file_hashes), LAMBDA new_hash :
            IF W.store[task] = SomeDigest(new_hash)
            THEN [trigger |-> FALSE, w |-> W_State(h.cache, W.store, W.snap)]
            ELSE IF fault = "save"
            THEN [trigger |-> TRUE, w |-> W_State(h.cache, W.store, W.snap)]
            ELSE [trigger |-> TRUE,
                  w |-> W_State(h.cache,
                                [W.store EXCEPT ![task] = SomeDigest(new_hash)],
                                [W.snap EXCEPT ![task] = files])]))

RECURSIVE trigger_roots_or_fail(_, _, _, _, _)
trigger_roots_or_fail(selected, path, W, sent, faults) ==
    IF selected = <<>> THEN [w |-> W, sent |-> sent]
    ELSE Bind(should_trigger_task_or_fail(W, path, Head(selected), faults[Head(selected)]),
         LAMBDA r :
            trigger_roots_or_fail(Tail(selected), path, r.w,
                                  IF r.trigger
                                  THEN Append(sent, TaskTriggeredEvent(Head(selected)))
                                  ELSE sent,
                                  faults))

(* the next path is processed; each gating meets the fault chosen for it.  *)
(* `seed` keeps the gated tasks and those of them whose gating failed      *)
(* before it compared the digests.                                         *)
ProcessFileChangeOrFail(faults) ==
    /\ notify_rx # <<>>
    /\ notify_rx' = Tail(notify_rx)
    /\ \E profile_order \in Perms(Tasks) :
       \E selected \in {SelectSeq(profile_order,
                                  LAMBDA t : t \in root_profiles(Head(notify_rx)))} :
       \E r \in {trigger_roots_or_fail(selected, Head(notify_rx),
                                        W_State(file_cache, hash_store, snapshot), <<>>,
                                        faults)} :
          /\ Len(runtime_tx) + Len(r.sent) <= MaxBurst
          /\ runtime_tx' = runtime_tx \o r.sent
          /\ file_cache' = r.w.cache
          /\ hash_store' = r.w.store
          /\ snapshot' = r.w.snap
          /\ seed' = [via |-> "gate", order |-> selected,
                      from |-> SelectSeq(selected,
                                         LAMBDA t : /\ profiles[t].use_hash
                                                    /\ faults[t] \notin {"none", "save"})]
    /\ UNCHANGED <<files, dir_order, profiles, storeVars>>
    /\ UNCHANGED <<graph, schedVars, coreVars, options, step, deferred, scenario, run_log,
                   exec_rx, exec_open, exec_hand, active, runners>>

(* one task, every watch set, hashing or not *)
CfgSingle == [A |-> <<>>]

InitGate ==
    /\ InitScheduler({CfgSingle})
    /\ InitWatcher(Files, BOOLEAN)
    /\ InitCore({"Queue"}, {1}, {FALSE})
    /\ InitExecIdle

NextGate ==
    \/ \E f \in Files, c \in Contents : FileWritten(f, c)
    \/ \E faults \in [Tasks -> Faults] : ProcessFileChangeOrFail(faults)
    \/ RuntimeTakes

SpecGate == InitGate /\ [][NextGate]_vars

----------------------------------------------------------------------------
(* Aggregate digests (watch/hash.rs, watch/event_handler.rs) *)

(* PathBuf's Ord on the paths of the directory *)
path_lt(a, b) ==
    \E i, j \in DOMAIN FileOrder : FileOrder[i] = a /\ FileOrder[j] = b /\ i < j

RECURSIVE sort_insert(_, _)
sort_insert(sorted, p) ==
    IF sorted = <<>> THEN <<p>>
    ELSE IF path_lt(p, Head(sorted)) THEN <<p>> \o sorted
    ELSE <<Head(sorted)>> \o sort_insert(Tail(sorted), p)

(* paths_vec.sort() *)
RECURSIVE sort_paths(_)
sort_paths(paths) ==
    IF paths = <<>> THEN <<>>
    ELSE sort_insert(sort_paths(Tail(paths)), Head(paths))

(* compute_hash_for_paths: the paths are sorted, then the digest of every   *)
(* file is fed to one hasher                                               *)
compute_hash_for_paths(paths) ==
    Bind(sort_paths(paths), LAMBDA paths_vec :
        compute_aggregate_hash([i \in DOMAIN paths_vec |-> compute_file_hash(paths_vec[i])]))

(* the new_hash of should_trigger_task, all files read afresh: the digests *)
(* of the matching files in the order collect_matching_files lists them    *)
watcher_aggregate(task) ==
    compute_aggregate_hash(
        hash_files(collect_matching_files(task), [f \in Files |-> NotCached], <<>>).file_hashes)

(* read_dir lists the entries of the directory in another order *)
DirectoryReordered(order) ==
    /\ order # dir_order
    /\ dir_order' = order
    /\ UNCHANGED <<files, notify_rx, profiles, file_cache, hash_store, snapshot, runtime_tx,
                   storeVars>>
    /\ WatchFrame

InitHash ==
    /\ InitScheduler({CfgUseHash})
    /\ InitWatcher(Files, BOOLEAN)
    /\ InitCore({"Queue"}, {1}, {FALSE})
    /\ InitExecIdle

NextHash ==
    \/ NextWatch
    \/ \E order \in Perms(Files) : DirectoryReordered(order)

SpecHash == InitHash /\ [][NextHash]_vars

TypeOK ==
    /\ \A t \in Tasks : tasks[t].run_state \in RunStates
    /\ run_counter \in 0..MaxRun
    /\ current_run_id \in {NoRun, run_counter}

----------------------------------------------------------------------------
(* Vocabulary of the properties *)

RunState(t) == tasks[t].run_state
Deps(t) == Range(graph.deps[t])
Active == current_run_id # NoRun
NamesOf(scheduled) == {st.name : st \in scheduled}

RECURSIVE DescendantClosure(_)
DescendantClosure(S) ==
    LET n == S \cup {u \in Tasks : \E v \in S : v \in Deps(u)}
    IN  IF n = S THEN S ELSE DescendantClosure(n)

TransDependents(t) == DescendantClosure({t}) \ {t}

(* dependency satisfaction as section 4.2 of the design states it *)
Satisfied(ts, t) ==
    \A d \in Deps(t) :
        \/ ts[d].run_state = DoneSuccess
        \/ ts[d].run_state = Absent /\ ts[d].last_successful_run # NoRun

----------------------------------------------------------------------------
(* C1: in every state reached by feeding TaskTriggered / TaskProgressed /  *)
(* TaskCompleted events to CoreRuntime.step, no task is Running while one  *)
(* of its direct dependencies is Pending, Running or DoneFailed in the     *)
(* current run.                                                            *)
C1_NoRunningBeforeDeps ==
    Active =>
        \A t \in Tasks :
            RunState(t) = Running =>
                \A d \in Deps(t) : RunState(d) \notin {Pending, Running, DoneFailed}

----------------------------------------------------------------------------
(* C2: Scheduler.handle_completion(t, Failed(code)) during an active run   *)
(* sets t to DoneFailed and marks DoneFailed every transitive dependent of *)
(* t that was Pending or Running, reporting t and each such dependent      *)
(* exactly once in newly_failed; the other tasks are left unchanged, no    *)
(* task is scheduled by the step, and the run is finalised if nothing is   *)
(* Pending or Running afterwards.                                          *)
FailedCompletionEffect(t, hit) ==
    /\ tasks'[t].run_state = DoneFailed
    /\ \A u \in hit : tasks'[u].run_state = DoneFailed
    /\ \A u \in Tasks \ (hit \cup {t}) : tasks'[u].run_state = tasks[u].run_state
    /\ Range(step'.newly_failed) = hit \cup {t}
    /\ NoDup(step'.newly_failed)
    /\ step'.newly_scheduled = {}
    /\ \A u \in Tasks : tasks'[u].run_state = Running => tasks[u].run_state = Running
    /\ IF \E u \in Tasks : tasks'[u].run_state \in {Pending, Running}
       THEN current_run_id' = current_run_id /\ ~ step'.run_just_finished
       ELSE current_run_id' = NoRun /\ step'.run_just_finished

C2_CascadeAllTransitive ==
    [][\A t \in Tasks :
          (Active /\ StepCompletion(t, Failed(FailCode))) =>
              FailedCompletionEffect(t,
                  {u \in TransDependents(t) : RunState(u) \in {Pending, Running}})]_vars

----------------------------------------------------------------------------
(* C3: deps_satisfied(t) is true iff every direct dependency of t is       *)
(* DoneSuccess, or is Absent and has a last_successful_run; hence a        *)
(* trigger of a task whose dependencies are all outside the run and have   *)
(* succeeded earlier dispatches it at once and leaves them outside the     *)
(* run, and a trigger of a task with a dependency outside the run that     *)
(* never succeeded dispatches nothing.                                     *)
EffectiveState(t) == IF Active THEN RunState(t) ELSE Absent

C3_DepsSatisfiedRule == \A t \in Tasks : deps_satisfied(t) <=> Satisfied(tasks, t)

C3_TriggerFollowsRule ==
    \A t \in Tasks :
        (EffectiveState(t) = Absent /\ StepTrigger(t)) =>
            /\ (\A d \in Deps(t) : EffectiveState(d) = Absent
                                   /\ tasks[d].last_successful_run # NoRun)
                  => /\ t \in NamesOf(step'.newly_scheduled)
                     /\ tasks'[t].run_state = Running
                     /\ \A d \in Deps(t) : tasks'[d].run_state = Absent
            /\ (\E d \in Deps(t) : EffectiveState(d) = Absent
                                   /\ tasks[d].last_successful_run = NoRun)
                  => /\ step'.newly_scheduled = {}
                     /\ tasks'[t].run_state = Pending

C3_DepsSatisfied == [] C3_DepsSatisfiedRule /\ [][C3_TriggerFollowsRule]_vars

C3_Witness ==
    /\ graph.deps = CfgChain
    /\ current_run_id = 2
    /\ tasks["A"].run_state = Absent /\ tasks["A"].last_successful_run = 1
    /\ tasks["B"].run_state = Running
    /\ step.newly_scheduled = {ScheduledTask("B", 2)}

----------------------------------------------------------------------------
(* C4: after every Scheduler operation the tasks returned as newly         *)
(* scheduled are exactly the tasks that were Pending with all dependencies *)
(* satisfied once the operation's state update had been applied, each of   *)
(* them is now Running (and carries the current run id), and no task is    *)
(* left Pending with its dependencies satisfied.                           *)
BeforeCollection ==
    [t \in Tasks |-> IF t \in NamesOf(step.newly_scheduled)
                     THEN [tasks[t] EXCEPT !.run_state = Pending]
                     ELSE tasks[t]]

ReadySet(ts) == {t \in Tasks : ts[t].run_state = Pending /\ Satisfied(ts, t)}

C4_ReadySetExact ==
    /\ NamesOf(step.newly_scheduled) = ReadySet(BeforeCollection)
    /\ \A st \in step.newly_scheduled :
          /\ tasks[st.name].run_state = Running
          /\ st.run_id = run_counter
    /\ ReadySet(tasks) = {}

C4_ScheduledWerePending ==
    \A t \in Tasks :
        t \in NamesOf(step'.newly_scheduled) =>
            \/ tasks[t].run_state = Pending
            \/ EffectiveState(t) = Absent /\ \E n \in Tasks : StepTrigger(n)

C4_ReadyCollection == [] C4_ReadySetExact /\ [][C4_ScheduledWerePending]_vars

C4_Witness ==
    /\ Cardinality(step.newly_scheduled) = 2
    /\ \A st \in step.newly_scheduled : tasks[st.name].run_state = Running
    /\ tasks["A"].run_state = DoneSuccess

----------------------------------------------------------------------------
(* C5: Scheduler.handle_trigger(name) for a known task during an active    *)
(* run makes name and every transitive dependent of name that was Absent   *)
(* Pending (then Running if ready); tasks already participating keep their *)
(* state apart from Pending -> Running; tasks that are neither name nor a  *)
(* transitive dependent keep their state; current_run_id and the history   *)
(* markers are unchanged.  In particular a second trigger for a task       *)
(* already in the run is a no-op.                                          *)
TriggerEffect(name) ==
    /\ current_run_id' = current_run_id
    /\ run_counter' = run_counter
    /\ \A u \in Tasks :
          /\ tasks'[u].last_successful_run = tasks[u].last_successful_run
          /\ tasks'[u].last_failed_run = tasks[u].last_failed_run
          /\ IF u \in DescendantClosure({name})
             THEN IF tasks[u].run_state = Absent
                  THEN tasks'[u].run_state \in {Pending, Running}
                  ELSE \/ tasks'[u].run_state = tasks[u].run_state
                       \/ tasks[u].run_state = Pending /\ tasks'[u].run_state = Running
             ELSE tasks'[u].run_state = tasks[u].run_state
          /\ tasks'[u].run_state = Running /\ tasks[u].run_state # Running
                => u \in NamesOf(step'.newly_scheduled)

SecondTriggerNoOp(name) ==
    tasks[name].run_state # Absent =>
        /\ tasks' = tasks
        /\ step'.newly_scheduled = {}

C5_TriggerFrame ==
    [][\A name \in Tasks :
          (Active /\ StepTrigger(name)) => TriggerEffect(name)]_vars

C5_TriggerFrameAndNoOp ==
    [][\A name \in Tasks :
          (Active /\ StepTrigger(name)) =>
              TriggerEffect(name) /\ SecondTriggerNoOp(name)]_vars

----------------------------------------------------------------------------
(* C6: when CoreRuntime processes TaskTriggered(name) while a run is       *)
(* active and name already participates in it, the scheduler is left       *)
(* unchanged, no command is emitted, keep_running is true, and name is     *)
(* recorded in the trigger queue according to the configured behaviour.    *)
Queued(q) == UNION Range(q.runs)

RecordedPerBehaviour(name) ==
    IF queue.behaviour = "Queue"
    THEN /\ Queued(queue') = Queued(queue) \cup {name}
         /\ Len(queue'.runs) \in 1..queue.max_runs
    ELSE queue'.runs = <<{name}>>

C6_RetriggerDeferred ==
    [][\A name \in Tasks :
          (Active /\ RunState(name) # Absent /\ TaskTriggered(name)) =>
              /\ UNCHANGED schedVars
              /\ commands' = <<>>
              /\ keep_running'
              /\ RecordedPerBehaviour(name)
              /\ queue'.behaviour = queue.behaviour
              /\ queue'.max_runs = queue.max_runs]_vars

C6_Witness ==
    /\ Active
    /\ tasks["A"].run_state = Running
    /\ tasks["B"].run_state = Pending
    /\ queue.runs = <<{"B"}>>
    /\ commands = <<>>
    /\ keep_running

----------------------------------------------------------------------------
(* C7: when CoreRuntime processes TaskTriggered(name) while a run is       *)
(* active and name is a known task that is Absent, name and its Absent     *)
(* transitive dependents join the active run under the same run_id, the    *)
(* trigger queue is unchanged, and the tasks that became ready are         *)
(* dispatched in that step with the active run_id; a task whose            *)
(* dependencies are satisfied (a never-run root in particular) is          *)
(* dispatched at once.                                                     *)
BecameRunning == {u \in Tasks : tasks'[u].run_state = Running /\ tasks[u].run_state # Running}

C7_MergeIntoActiveRun ==
    [][\A name \in Tasks :
          (Active /\ RunState(name) = Absent /\ TaskTriggered(name)) =>
              /\ current_run_id' = current_run_id
              /\ run_counter' = run_counter
              /\ queue' = queue
              /\ keep_running'
              /\ \A u \in Tasks :
                    /\ tasks'[u].last_successful_run = tasks[u].last_successful_run
                    /\ tasks'[u].last_failed_run = tasks[u].last_failed_run
                    /\ IF u \in DescendantClosure({name}) /\ tasks[u].run_state = Absent
                       THEN tasks'[u].run_state \in {Pending, Running}
                       ELSE tasks'[u].run_state = tasks[u].run_state
              /\ commands' = IF BecameRunning = {} THEN <<>>
                             ELSE <<DispatchTasks({ScheduledTask(u, current_run_id) :
                                                     u \in BecameRunning})>>
              /\ Satisfied(tasks, name) => name \in BecameRunning]_vars

C7_Witness ==
    /\ graph.deps = CfgLone
    /\ current_run_id = 1
    /\ tasks["A"].run_state = Running
    /\ tasks["B"].run_state = Pending
    /\ tasks["C"].run_state = Running
    /\ commands = <<DispatchTasks({ScheduledTask("C", 1)})>>
    /\ queue.runs = <<>>

----------------------------------------------------------------------------
(* C8: in Queue mode no deferred trigger is lost and bursts are coalesced: *)
(* the step in which the active run finishes, after triggers were deferred *)
(* during it, starts the next run from exactly the set of distinct         *)
(* deferred names, each applied once, and leaves the queue empty.          *)

C8_QueueHoldsDeferred ==
    (queue.behaviour = "Queue" /\ Active) => Queued(queue) = Range(deferred)

C8_RunEndSeedsFromDeferred ==
    (/\ queue.behaviour = "Queue"
     /\ Active
     /\ deferred # <<>>
     /\ current_run_id' # current_run_id)
    => /\ run_counter' = run_counter + 1
       /\ current_run_id' = run_counter'
       /\ seed'.via = "queue"
       /\ seed'.from = deferred
       /\ Range(seed'.order) = Range(deferred)
       /\ NoDup(seed'.order)
       /\ \A t \in Range(deferred) : tasks'[t].run_state # Absent
       /\ queue'.runs = <<>>
       /\ deferred' = <<>>

C8_QueueCoalesces == [] C8_QueueHoldsDeferred /\ [][C8_RunEndSeedsFromDeferred]_vars

(* run 2 was started from {A, B} after the triggers A, A, B were deferred *)
C8_Witness ==
    /\ queue.behaviour = "Queue"
    /\ current_run_id = 2
    /\ seed.via = "queue"
    /\ seed.from = <<"A", "A", "B">>
    /\ Range(seed.order) = {"A", "B"}
    /\ queue.runs = <<>>

----------------------------------------------------------------------------
(* C9: Cancel mode, graph A -> B: run 1 is started by triggering A; while  *)
(* A is executing, B is triggered and then A is triggered.  The queue then *)
(* contains only {A}; when run 1 finishes run 2 starts from {A}.  B is not *)
(* a seed of run 2, but it joins run 2 as A's dependent: at the start of   *)
(* run 2 only A is dispatched and B is Pending, and B is dispatched in     *)
(* run 2 by a step that leaves A DoneSuccess in run 2.                     *)

LastWins(phase) == queue.behaviour = "Cancel" /\ scenario = phase

C9_QueueOnlyA ==
    LastWins("BA") => /\ current_run_id = 1
                      /\ deferred = <<"B", "A">>
                      /\ queue.runs = <<{"A"}>>

C9_Run2StartsFromA ==
    (LastWins("BA") /\ current_run_id' # current_run_id)
    => /\ scenario' = "run2"
       /\ current_run_id' = 2
       /\ seed' = [via |-> "queue", order |-> <<"A">>, from |-> <<"B", "A">>]
       /\ queue'.runs = <<>>
       /\ commands' = <<DispatchTasks({ScheduledTask("A", 2)})>>
       /\ tasks'["A"].run_state = Running

C9_BJoinsAsDependent ==
    (LastWins("BA") /\ current_run_id' # current_run_id)
    => tasks'["B"].run_state = Pending

C9_BDispatchedAfterA ==
    (/\ LastWins("run2") /\ scenario' = "run2"
     /\ tasks["B"].run_state # Running
     /\ tasks'["B"].run_state = Running)
    => /\ tasks'["A"].run_state = DoneSuccess
       /\ tasks'["A"].last_successful_run = 2
       /\ \E i \in 1..Len(commands') : ScheduledTask("B", 2) \in commands'[i].tasks

C9_BNotInRun2 ==
    LastWins("run2") => tasks["B"].run_state # Running

----------------------------------------------------------------------------
(* C10: at every instant there is at most one live child process per task  *)
(* name; in particular the child of a new instance of a rerun task is      *)
(* never alive together with the child of the instance it replaces.        *)

LiveChildren(name) ==
    {i \in DOMAIN runners : runners[i].name = name /\ runners[i].child = "alive"}

C10_OneLiveChildPerName ==
    \A name \in Tasks : Cardinality(LiveChildren(name)) <= 1

----------------------------------------------------------------------------
(* C11: once the executor has handled a new ScheduledTask for a rerun task *)
(* whose earlier instance was still active (the earlier instance has been  *)
(* sent the cancel signal), no TaskCompleted emitted by that earlier       *)
(* instance is delivered to the runtime.                                   *)

Superseded(i) == i \in DOMAIN runners /\ runners[i].cancel_rx = "sent"

C11_DeliveredFromLiveInstance ==
    RuntimeReceives =>
        ~ (/\ Head(runtime_tx).type = "TaskCompleted"
           /\ Superseded(Head(runtime_tx).from))

C11_NoCompletionFromSuperseded == [][C11_DeliveredFromLiveInstance]_vars

----------------------------------------------------------------------------
(* C12: when the executor handles a ScheduledTask for X with rerun = false *)
(* and long_lived = true while an instance of X is still running, it       *)
(* spawns no runner and sends exactly one TaskProgressed(X); when the      *)
(* runtime processes that event, X is marked DoneSuccess in the current    *)
(* run and every dependent of X that is Pending with its dependencies now  *)
(* satisfied is dispatched.                                                *)
Rescheduled(X) ==
    /\ exec_rx # <<>>
    /\ Head(exec_rx).name = X
    /\ ~ ExecCfg[X].rerun
    /\ ExecCfg[X].long_lived
    /\ X \in DOMAIN active
    /\ ~ handle_is_finished(X)

Synthesised(event) == event.type = "TaskProgressed" /\ event.from = 0

C12_ExecutorSynthesises ==
    \A X \in Tasks :
        (Rescheduled(X) /\ HandleScheduledTask) =>
            /\ runners' = runners
            /\ active' = active
            /\ runtime_tx' = Append(runtime_tx, TaskProgressedEvent(X))

C12_CoreAdvances ==
    \A X \in Tasks :
        (/\ runtime_tx # <<>>
         /\ Synthesised(Head(runtime_tx))
         /\ Head(runtime_tx).task = X
         /\ RuntimeLoop) =>
            /\ Active
            /\ tasks'[X].last_successful_run = current_run_id
            /\ current_run_id' = current_run_id => tasks'[X].run_state = DoneSuccess
            /\ \A d \in Tasks :
                  (/\ X \in Deps(d)
                   /\ RunState(d) = Pending
                   /\ Satisfied([tasks EXCEPT ![X].run_state = DoneSuccess], d)) =>
                      /\ tasks'[d].run_state = Running
                      /\ ScheduledTask(d, current_run_id) \in Range(exec_rx')

C12_SynthesisedProgress ==
    [][C12_ExecutorSynthesises /\ C12_CoreAdvances]_vars

(* the executor's half alone *)
C12_ExecutorHalf == [][C12_ExecutorSynthesises]_vars

(* the core's half for an event that finds X Running in an active run *)
C12_CoreHalfWhileRunning ==
    [][(Active /\ runtime_tx # <<>> /\ Synthesised(Head(runtime_tx))
        /\ RunState(Head(runtime_tx).task) = Running) => C12_CoreAdvances]_vars

C12_Reached ==
    /\ Active
    /\ runtime_tx # <<>>
    /\ Synthesised(Head(runtime_tx))
    /\ RunState(Head(runtime_tx).task) = Running

----------------------------------------------------------------------------
(* C13: when the runtime processes a TaskProgressed(A) for a task A that   *)
(* is Running in the active run, A becomes DoneSuccess with                *)
(* last_successful_run = the current run id and every dependent of A that  *)
(* is Pending with its dependencies now satisfied is dispatched; and a     *)
(* progress or completion event after which no task is Pending or Running  *)
(* ends the run (current_run_id cleared), so a run ends without any        *)
(* TaskCompleted(A).                                                       *)
NextEvent(type) == runtime_tx # <<>> /\ Head(runtime_tx).type = type

C13_ProgressMarksDone ==
    \A X \in Tasks :
        (/\ Active
         /\ RunState(X) = Running
         /\ NextEvent("TaskProgressed")
         /\ Head(runtime_tx).task = X
         /\ RuntimeLoop) =>
            /\ tasks'[X].run_state = DoneSuccess
            /\ tasks'[X].last_successful_run = current_run_id
            /\ \A d \in Tasks :
                  (/\ X \in Deps(d)
                   /\ RunState(d) = Pending
                   /\ Satisfied([tasks EXCEPT ![X].run_state = DoneSuccess], d)) =>
                      /\ tasks'[d].run_state = Running
                      /\ ScheduledTask(d, current_run_id) \in Range(exec_rx')

C13_RunEndsWhenNothingLeft ==
    (/\ Active
     /\ NextEvent("TaskProgressed") \/ NextEvent("TaskCompleted")
     /\ RuntimeLoop) =>
        ((\A t \in Tasks : tasks'[t].run_state \notin {Pending, Running}) =>
            current_run_id' = NoRun)

C13_ProgressFinishesRun ==
    [][C13_ProgressMarksDone /\ C13_RunEndsWhenNothingLeft]_vars

(* the run has ended with every task of the chain done while the only      *)
(* instance of the long-lived task is still in its select with a live      *)
(* child, so it never sent a TaskCompleted                                 *)
C13_Witness ==
    /\ ~ Active
    /\ run_counter = 1
    /\ \A t \in Tasks : RunState(t) = DoneSuccess
    /\ \E i \in DOMAIN runners :
          /\ ExecCfg[runners[i].name].long_lived
          /\ runners[i].pc = "select"
          /\ runners[i].child = "alive"
          /\ tasks[runners[i].name].last_successful_run = 1
          /\ \E d \in Tasks : runners[i].name \in Deps(d)

----------------------------------------------------------------------------
(* C14: with exit_when_idle = true, every step of the core that ends the   *)
(* run (a run was active before it, the scheduler is idle after it) and    *)
(* leaves the trigger queue empty returns keep_running = false together    *)
(* with a RequestExit command, whether the event that ended the run was a  *)
(* TaskCompleted or a TaskProgressed.                                      *)
C14_RunEndedIdle ==
    /\ options.exit_when_idle
    /\ Active
    /\ NextEvent("TaskProgressed") \/ NextEvent("TaskCompleted")
    /\ RuntimeLoop
    /\ current_run_id' = NoRun
    /\ queue_is_empty(queue')

C14_ExitWhenIdle ==
    [][C14_RunEndedIdle =>
          (~ keep_running' /\ RequestExit \in Range(commands'))]_vars

(* the same for the runs ended by a TaskCompleted only *)
C14_ExitWhenIdleAfterCompletion ==
    [][(C14_RunEndedIdle /\ NextEvent("TaskCompleted")) =>
          (~ keep_running' /\ RequestExit \in Range(commands'))]_vars

----------------------------------------------------------------------------
(* C15: on every acyclic graph, for every batch of initial triggers and    *)
(* every choice of outcomes, if every dispatched task reports a completion *)
(* the program settles: nothing is in flight any more and the scheduler is *)
(* idle, or no task is Running and every Pending task has unsatisfied      *)
(* dependencies (a validly stuck run); when the initial triggers are       *)
(* exactly the roots of the DAG it settles idle.                           *)
NothingInFlight == exec_rx = <<>> /\ runtime_tx = <<>>

ValidlyStuck ==
    /\ Active
    /\ \A t \in Tasks : RunState(t) # Running
    /\ \A t \in Tasks : RunState(t) = Pending => ~ deps_satisfied(t)

RootsTriggered == Range(seed.order) = root_tasks

(* seed never changes here, so RootsTriggered holds throughout or never *)
Settled ==
    /\ NothingInFlight
    /\ IF RootsTriggered THEN ~ Active ELSE ~ Active \/ ValidlyStuck

C15_EventualTermination == <>[]Settled

(* a run started from the roots has ended with a task failed and its       *)
(* dependents failed with it                                               *)
C15_Witness ==
    /\ RootsTriggered
    /\ NothingInFlight
    /\ ~ Active
    /\ run_counter >= 1
    /\ \E t \in Tasks : RunState(t) = DoneFailed /\ Deps(t) # {}


----------------------------------------------------------------------------
(* C16: for any acyclic dependency map and any changed path, the tasks     *)
(* process_file_change selects (no task hashes here, so the selected tasks *)
(* are the ones a trigger is sent for) are exactly the matching tasks with *)
(* no transitive ancestor in the matching set; the selection is non-empty  *)
(* when the matching set is, and every matching task left out is a         *)
(* transitive dependent of a selected one.                                 *)
Matching(path) == {t \in Tasks : path \in profiles[t].watch}
TransAncestors(t) == {u \in Tasks : t \in TransDependents(u)}
NewlySent == {runtime_tx'[i].task : i \in (Len(runtime_tx) + 1)..Len(runtime_tx')}

C16_FilterSelectsRoots ==
    [][ProcessFileChange =>
         LET M == Matching(Head(notify_rx))
             S == NewlySent
         IN  /\ S = {t \in M : TransAncestors(t) \cap M = {}}
             /\ Len(runtime_tx') = Len(runtime_tx) + Cardinality(S)
             /\ M # {} => S # {}
             /\ \A t \in M \ S : \E u \in S : t \in TransDependents(u)]_vars

(* on the chain A -> B -> C, A and C (not B) match the path: only A was    *)
(* sent, C was left out through its grandparent                            *)
C16_Witness ==
    /\ graph.deps = CfgChain
    /\ Matching("x") = {"A", "C"}
    /\ notify_rx = <<>>
    /\ runtime_tx = <<TaskTriggeredEvent("A")>>


----------------------------------------------------------------------------
(* C17: hash gating of a task T with use_hash: the first event selecting T *)
(* triggers T and stores its digest; a later event after which the files   *)
(* matching T have the contents they had when the digest was last stored   *)
(* sends no trigger for T and leaves the digest alone; an event after      *)
(* which they differ triggers T and stores the new digest; a selected task *)
(* without use_hash is triggered on every event.                           *)
Selected(path) == {t \in Matching(path) : TransAncestors(t) \cap Matching(path) = {}}
SameAsStored(t) == \A f \in profiles[t].watch : files[f] = snapshot[t][f]
DigestOfFiles(t) ==
    SomeDigest([i \in DOMAIN collect_matching_files(t) |->
                   compute_file_hash(collect_matching_files(t)[i])])

C17_FirstEvent(t) ==
    ~ hash_store[t].some => t \in NewlySent /\ hash_store'[t] = DigestOfFiles(t)
C17_Unchanged(t) ==
    hash_store[t].some /\ SameAsStored(t)
        => t \notin NewlySent /\ hash_store'[t] = hash_store[t]
C17_Changed(t) ==
    hash_store[t].some /\ ~ SameAsStored(t)
        => t \in NewlySent /\ hash_store'[t].some /\ hash_store'[t] # hash_store[t]

C17_FirstEventTriggers ==
    [][ProcessFileChange =>
         \A t \in Selected(Head(notify_rx)) : profiles[t].use_hash => C17_FirstEvent(t)]_vars
C17_UnchangedSkipped ==
    [][ProcessFileChange =>
         \A t \in Selected(Head(notify_rx)) : profiles[t].use_hash => C17_Unchanged(t)]_vars
C17_ChangedTriggers ==
    [][ProcessFileChange =>
         \A t \in Selected(Head(notify_rx)) : profiles[t].use_hash => C17_Changed(t)]_vars
C17_NonHashingTriggered ==
    [][ProcessFileChange =>
         \A t \in Selected(Head(notify_rx)) : ~ profiles[t].use_hash => t \in NewlySent]_vars

C17_HashGating ==
    [][ProcessFileChange =>
         \A t \in Selected(Head(notify_rx)) :
            IF profiles[t].use_hash
            THEN C17_FirstEvent(t) /\ C17_Unchanged(t) /\ C17_Changed(t)
            ELSE t \in NewlySent]_vars


----------------------------------------------------------------------------
(* C18: a task with run_on_own_files_only is dispatched in a run only if a *)
(* trigger for it was applied to that run. With --once only the roots of   *)
(* the DAG are triggered, so a flagged task that is not a root is never    *)
(* dispatched (and the runtime still exits).                               *)
C18_Dispatched(t) ==
    \/ RunState(t) = Running
    \/ \E i \in DOMAIN exec_rx : exec_rx[i].name = t

C18_OwnFilesOnlyNeedsTrigger ==
    \A t \in Tasks :
        run_on_own_files_only(t) /\ t \notin root_tasks => ~ C18_Dispatched(t)

(* what holds instead: the flagged dependent is dispatched once its        *)
(* upstream has succeeded, like any other dependent                        *)
C18_DispatchedAsDependent ==
    /\ graph.deps = CfgPair
    /\ RunState("A") = DoneSuccess
    /\ C18_Dispatched("B")


----------------------------------------------------------------------------
(* C19: a run started from a set of triggers that holds both a task and    *)
(* one of its ancestors dispatches only the ancestor at first: right after *)
(* the step that seeds the run, no seeded task with a seeded ancestor is   *)
(* Running, whatever the order the seeds were applied in and whatever the  *)
(* tasks' last_successful_run.                                             *)
Seeds == Range(seed.order)
SeededWithAncestor == {t \in Seeds : TransAncestors(t) \cap Seeds # {}}

C19_AncestorFirst ==
    seed.via = "queue" => \A t \in SeededWithAncestor : RunState(t) # Running

(* the same when the ancestor is applied first, or has no earlier success  *)
C19_AncestorFirstInOrder ==
    (/\ seed.via = "queue"
     /\ \A i, j \in DOMAIN seed.order :
           seed.order[i] \in TransAncestors(seed.order[j]) => i < j)
    => \A t \in SeededWithAncestor : RunState(t) # Running

C19_AncestorFirstNoHistory ==
    (/\ seed.via = "queue"
     /\ \A t \in Seeds : tasks[t].last_successful_run \in {NoRun, current_run_id})
    => \A t \in SeededWithAncestor : RunState(t) # Running

C19_Reached ==
    /\ seed.via = "queue"
    /\ seed.order = <<"A", "B">>
    /\ RunState("A") = Running
    /\ RunState("B") = Pending


----------------------------------------------------------------------------
(* C20: after every Scheduler operation (start_new_run, handle_trigger,    *)
(* handle_progress, handle_completion) the scheduler is idle if and only   *)
(* if no task is Pending or Running.                                       *)
NoneLive == \A t \in Tasks : RunState(t) \notin {Pending, Running}

C20_IdleIffNoneLive == ~ Active <=> NoneLive

(* the two directions *)
C20_IdleImpliesNoneLive == ~ Active => NoneLive
C20_NoneLiveImpliesIdle == NoneLive => ~ Active

(* as amended: an idle scheduler has no Pending or Running task;           *)
(* start_new_run on its own leaves an active run with every task Absent;   *)
(* handle_trigger, handle_progress and handle_completion, called in a      *)
(* state where the equivalence holds, leave it holding                     *)
C20_HandlersKeepEquivalence ==
    [][/\ C20_IdleImpliesNoneLive'
       /\ StartNewRun => (Active /\ \A t \in Tasks : RunState(t) = Absent)'
       /\ (C20_IdleIffNoneLive /\ ~ StartNewRun) => C20_IdleIffNoneLive']_vars

(* a handler has just finished a run in which a task succeeded and its     *)
(* dependent failed                                                        *)
C20_Witness ==
    /\ step.run_just_finished
    /\ ~ Active
    /\ NoneLive
    /\ \E t \in Tasks : RunState(t) = DoneFailed /\ \E d \in Deps(t) : RunState(d) = DoneSuccess


----------------------------------------------------------------------------
(* C21: at most one run is active and run ids increase strictly: after     *)
(* every scheduler operation current_run_id is None or equal to            *)
(* run_counter; run_counter never decreases; a run that is started gets    *)
(* the id run_counter + 1, greater than the id of every earlier run; and   *)
(* every ScheduledTask of the step carries the id of the current run.      *)
C21_RunIds ==
    [][/\ current_run_id' \in {NoRun, run_counter'}
       /\ run_counter' \in {run_counter, run_counter + 1}
       /\ (current_run_id' # NoRun /\ current_run_id' # current_run_id)
             => current_run_id' = run_counter + 1
       /\ (run_counter' = run_counter /\ current_run_id' # NoRun)
             => current_run_id' = current_run_id
       /\ \A st \in step'.newly_scheduled :
             current_run_id' # NoRun /\ st.run_id = current_run_id']_vars

(* the second run is active and a task was just scheduled in it *)
C21_Witness ==
    /\ current_run_id = 2
    /\ run_counter = 2
    /\ \E st \in step.newly_scheduled : st.run_id = 2


(* the same for the runs CoreRuntime starts from the queue: the tasks it   *)
(* dispatches carry the id of the run that is current after the step       *)
C21_CoreRunIds ==
    [][/\ current_run_id' \in {NoRun, run_counter'}
       /\ run_counter' \in {run_counter, run_counter + 1}
       /\ (current_run_id' # NoRun /\ current_run_id' # current_run_id)
             => current_run_id' = run_counter + 1
       /\ \A i \in DOMAIN commands' :
             commands'[i].kind = "DispatchTasks" =>
                \A st \in commands'[i].tasks :
                    current_run_id' # NoRun /\ st.run_id = current_run_id']_vars


----------------------------------------------------------------------------
(* C22: a task whose per-run state is DoneSuccess has last_successful_run  *)
(* equal to the id of the run in which it got there (the current run, or   *)
(* the run that just finished: run_counter in both cases), by completion   *)
(* or by progress; start_new_run resets every per-run state and leaves     *)
(* last_successful_run and last_failed_run of every task unchanged.        *)
C22_Stamped(ts, rc) ==
    \A t \in Tasks :
        ts[t].run_state = DoneSuccess => rc # NoRun /\ ts[t].last_successful_run = rc

C22_SuccessStamped ==
    [][/\ C22_Stamped(tasks', run_counter')
       /\ StartNewRun =>
            \A t \in Tasks :
               /\ tasks'[t].run_state = Absent
               /\ tasks'[t].last_successful_run = tasks[t].last_successful_run
               /\ tasks'[t].last_failed_run = tasks[t].last_failed_run]_vars

(* run 2 was opened by start_new_run after run 1 in which A succeeded and  *)
(* B failed: both markers survived the reset, and C succeeded in run 2     *)
C22_Witness ==
    /\ run_counter = 2
    /\ \E a, b, c \in Tasks :
         /\ tasks[a].run_state = Absent /\ tasks[a].last_successful_run = 1
         /\ tasks[b].run_state = Absent /\ tasks[b].last_failed_run = 1
         /\ tasks[c].run_state = DoneSuccess /\ tasks[c].last_successful_run = 2


----------------------------------------------------------------------------
(* C23: handle_progress(t) applied twice in succession leaves the          *)
(* scheduler in the state one application leaves it in (per-run states,    *)
(* history markers, current_run_id, run_counter), and the second           *)
(* application schedules nothing.                                          *)
SchedAfter == [tasks |-> tasks', run_counter |-> run_counter',
               current_run_id |-> current_run_id']

C23_ProgressIdempotent ==
    [][\A task \in Names :
          StepProgress(task) =>
             /\ handle_progress(SchedAfter, task).s = SchedAfter
             /\ handle_progress(SchedAfter, task).ready = {}
             /\ progress_step_internal(SchedAfter, task).step = NoStep]_vars

(* a progress (or success) was just applied to a task of the active run,   *)
(* it scheduled a dependent, and applying handle_progress to the same task *)
(* again changes nothing                                                   *)
C23_Witness ==
    /\ Active
    /\ \E task \in Tasks :
         /\ RunState(task) = DoneSuccess
         /\ \E st \in step.newly_scheduled : task \in Deps(st.name)
         /\ handle_progress(Sched, task).s = Sched


----------------------------------------------------------------------------
(* C24: in Cancel mode, after any non-empty sequence of record_trigger     *)
(* calls the queue holds exactly one batch with only the last recorded     *)
(* name: drain_pending returns exactly that name and leaves the queue      *)
(* empty, whatever max_runs is.                                            *)
LastOf(s) == s[Len(s)]

C24_CancelKeepsLast ==
    [][queue.behaviour = "Cancel" =>
         /\ deferred' # <<>> => queue'.runs = <<{LastOf(deferred')}>>
         /\ (QueueDrainPending /\ deferred # <<>>) =>
               /\ seed'.order = <<LastOf(deferred)>>
               /\ queue'.runs = <<>>]_vars

(* a, b, c were recorded in Cancel mode and the drain returned c alone *)
C24_Witness ==
    /\ queue.behaviour = "Cancel"
    /\ seed.via = "drain"
    /\ seed.from = <<"A", "B", "C">>
    /\ seed.order = <<"C">>
    /\ queue.runs = <<>>


----------------------------------------------------------------------------
(* C25: both HashStore variants behave as a map from task name to digest:  *)
(* after any sequence of save and prune calls, load(t) returns the digest  *)
(* of the most recent save(t, h) not followed by a prune whose active set  *)
(* excludes t, and None otherwise.                                         *)
C25_MemoryIsMap ==
    \A t \in StoreNames : MemoryHashStore_load(mem_store, t) = map_get(store_hist.map, t)
C25_FileIsMap ==
    \A t \in StoreNames : FileHashStore_load(hash_file, t) = map_get(store_hist.map, t)

C25_BothStoresAreMaps == C25_MemoryIsMap /\ C25_FileIsMap

(* the file variant too, as long as no saved name contains whitespace *)
C25_FileIsMapForPlainNames ==
    (\A t \in store_hist.saved : \A i \in DOMAIN t : ~ is_whitespace(t[i]))
        => C25_FileIsMap

C25_Reached ==
    /\ DOMAIN store_hist.map = {<<"a">>, <<"b">>}
    /\ store_hist.saved = {<<"a">>, <<"b">>}
    /\ Len(hash_file) = 2

----------------------------------------------------------------------------
(* C26: the aggregate digest of a task's watched files does not depend on   *)
(* the order the files are passed or enumerated in, and two aggregates are *)
(* equal iff the files' contents are equal, both for                       *)
(* compute_hash_for_paths and for the aggregate of the watcher's hash      *)
(* gating. Stated over every step: the aggregate after the step equals the *)
(* aggregate before it iff no file it covers changed its contents.         *)
PathLists == UNION {Perms(S) : S \in SUBSET Files}
SameContents(S) == \A f \in S : files'[f] = files[f]

C26_PathsAggregate ==
    [][\A p, q \in PathLists :
          Range(p) = Range(q) =>
              (compute_hash_for_paths(p)' = compute_hash_for_paths(q)
                  <=> SameContents(Range(p)))]_vars

C26_WatcherAggregate ==
    [][\A t \in Tasks :
          profiles[t].use_hash =>
              (watcher_aggregate(t)' = watcher_aggregate(t)
                  <=> SameContents(profiles[t].watch))]_vars

C26_AggregateOrderIndependent ==
    [][/\ \A p, q \in PathLists :
             Range(p) = Range(q) =>
                 (compute_hash_for_paths(p)' = compute_hash_for_paths(q)
                     <=> SameContents(Range(p)))
       /\ \A t \in Tasks :
             profiles[t].use_hash =>
                 (watcher_aggregate(t)' = watcher_aggregate(t)
                     <=> SameContents(profiles[t].watch))]_vars

(* what holds of the watcher's aggregate: while the directory is listed in *)
(* the same order, it changes iff a matching file's contents change        *)
C26_WatcherAggregateSameOrder ==
    [][\A t \in Tasks :
          (profiles[t].use_hash /\ dir_order' = dir_order) =>
              (watcher_aggregate(t)' = watcher_aggregate(t)
                  <=> SameContents(profiles[t].watch))]_vars

(* the case is reached: a hashing task watches two files of different      *)
(* contents and the directory is listed in the other order                 *)
C26_Reached ==
    \E t \in Tasks :
        /\ profiles[t].use_hash
        /\ profiles[t].watch = Files
        /\ files["x"] # files["y"]
        /\ dir_order # FileOrder

----------------------------------------------------------------------------
(* C27: DoneSuccess and DoneFailed are terminal within a run: once a task's *)
(* per-run state is DoneSuccess or DoneFailed, no trigger, progress or     *)
(* completion event of that run changes it; it changes only when the next  *)
(* run is started.                                                         *)
Terminal == {DoneSuccess, DoneFailed}
KeepsTerminal ==
    \A t \in Tasks : tasks[t].run_state \in Terminal =>
                        tasks'[t].run_state = tasks[t].run_state

C27_TerminalWithinRun == [][run_counter' = run_counter => KeepsTerminal]_vars

(* what holds: a trigger changes no terminal state, and a progress or a   *)
(* successful completion keeps DoneSuccess                                 *)
C27_TriggerKeepsTerminal ==
    [][(run_counter' = run_counter /\ \E task \in Names : StepTrigger(task))
          => KeepsTerminal]_vars

C27_SuccessKeepsDoneSuccess ==
    [][\A task \in Tasks :
          (tasks[task].run_state = DoneSuccess
             /\ (StepProgress(task) \/ StepCompletion(task, Success)))
          => tasks'[task].run_state = DoneSuccess]_vars

(* only the task the progress or completion names, or its dependents      *)
(* failed by the cascade, hold a terminal state                            *)
C27_OthersKeepTerminal ==
    [][\A task \in Tasks :
          (StepProgress(task) \/ \E o \in Outcomes : StepCompletion(task, o))
          => \A t \in Tasks \ {task} :
                 tasks[t].run_state \in Terminal =>
                    tasks'[t].run_state = tasks[t].run_state]_vars

(* the case is reached: a run in which one task succeeded and one failed   *)
(* is still active                                                         *)
C27_Reached ==
    /\ current_run_id # NoRun
    /\ \E a, b \in Tasks : tasks[a].run_state = DoneSuccess /\ tasks[b].run_state = DoneFailed

----------------------------------------------------------------------------
(* C28: every runner instance takes exactly one path. Either it sends one  *)
(* TaskCompleted (Success for exit code 0, Failed(code) otherwise,         *)
(* Failed(-1) when spawning or waiting fails) and finishes, or it takes    *)
(* the cancel arm of the select (the signal was sent, or its sender was    *)
(* dropped), leaves no child alive, sends nothing and finishes. A finished *)
(* runner stays finished and sends nothing, so no instance sends two       *)
(* completions or a completion after the cancel arm.                       *)
Emits(i) ==
    /\ Len(runtime_tx') = Len(runtime_tx) + 1
    /\ runtime_tx'[Len(runtime_tx')].type = "TaskCompleted"
    /\ runtime_tx'[Len(runtime_tx')].from = i
Emitted(i) == runtime_tx'[Len(runtime_tx')]

CompletionPath(i) ==
    /\ runners[i].pc = "send"
    /\ Emits(i)
    /\ Emitted(i).task = runners[i].name
    /\ Emitted(i).outcome = (IF runners[i].code = 0 THEN Success ELSE Failed(runners[i].code))
    /\ runners[i].child = "none" => runners[i].code = SpawnFailed

CancelPath(i) ==
    /\ runners[i].pc = "select"
    /\ runners[i].cancel_rx \in {"sent", "closed"}
    /\ runners'[i].child # "alive"
    /\ ~ Emits(i)

C28_RunnerTakesOnePath ==
    [][\A i \in DOMAIN runners :
          /\ Emits(i) => (CompletionPath(i) /\ runners'[i].pc = "done")
          /\ (runners[i].pc # "done" /\ runners'[i].pc = "done")
                => (CompletionPath(i) \/ CancelPath(i))
          /\ runners[i].pc = "done" => runners'[i].pc = "done"
          /\ (runners[i].pc # "send" /\ runners'[i].pc = "send") =>
                \/ runners[i].pc = "spawned" /\ runners'[i].code = SpawnFailed
                \/ /\ runners[i].pc = "select"
                   /\ \/ runners'[i].code = SpawnFailed
                      \/ runners[i].child = "exited" /\ runners'[i].code = runners[i].code]_vars

(* one instance was cancelled and its child killed, and in the same        *)
(* behaviour another instance has sent its completion                      *)
C28_Witness ==
    \E i, j \in DOMAIN runners :
        /\ runners[i].pc = "done" /\ runners[i].cancel_rx = "sent" /\ runners[i].child = "killed"
        /\ runners[j].pc = "done"
        /\ \E k \in DOMAIN runtime_tx :
              runtime_tx[k].type = "TaskCompleted" /\ runtime_tx[k].from = j

----------------------------------------------------------------------------
(* C29: upstream executions propagate downstream. When a run has ended in  *)
(* which A was dispatched and then succeeded, every transitive dependent  *)
(* of A that ended the run as DoneSuccess was dispatched in that run after *)
(* A's success.                                                            *)
RunEnded == run_counter # 0 /\ current_run_id = NoRun
Executed(a) ==
    {j \in DOMAIN run_log :
        /\ run_log[j] = LogEntry("success", a)
        /\ \E i \in 1..(j - 1) : run_log[i] = LogEntry("dispatch", a)}
DispatchedAfter(d, j) ==
    \E k \in DOMAIN run_log : k > j /\ run_log[k] = LogEntry("dispatch", d)

C29_DownstreamAfterUpstream ==
    RunEnded =>
        \A a \in Tasks : \A d \in TransDependents(a) : \A j \in Executed(a) :
            tasks[d].run_state = DoneSuccess => DispatchedAfter(d, j)

(* what holds: the same for the first run, in which no task has a success *)
(* of an earlier run that could stand for its execution in this one        *)
C29_FirstRun ==
    (RunEnded /\ run_counter = 1) =>
        \A a \in Tasks : \A d \in TransDependents(a) : \A j \in Executed(a) :
            tasks[d].run_state = DoneSuccess => DispatchedAfter(d, j)

(* the case is reached: a run has ended in which A ran and succeeded, then *)
(* its dependent was dispatched and succeeded                              *)
C29_Reached ==
    /\ RunEnded
    /\ \E a \in Tasks : \E d \in TransDependents(a) : \E j \in Executed(a) :
          tasks[d].run_state = DoneSuccess /\ DispatchedAfter(d, j)

----------------------------------------------------------------------------
(* C30: a task marked DoneFailed by the cascade from a failed upstream     *)
(* produces no process in that run: it was not dispatched earlier in the  *)
(* run, it is not dispatched later in the run, and no TaskCompleted is     *)
(* produced for it.                                                        *)
Dispatched(d) == \E k \in DOMAIN run_log : run_log[k] = LogEntry("dispatch", d)

(* the runtime handles the failure of another task and d becomes DoneFailed *)
CascadeStep(d) ==
    /\ runtime_tx # <<>>
    /\ Head(runtime_tx).type = "TaskCompleted"
    /\ Head(runtime_tx).task # d
    /\ run_counter' = run_counter
    /\ tasks[d].run_state # DoneFailed
    /\ tasks'[d].run_state = DoneFailed

CompletionProduced(d) ==
    /\ Len(runtime_tx') = Len(runtime_tx) + 1
    /\ runtime_tx'[Len(runtime_tx')].type = "TaskCompleted"
    /\ runtime_tx'[Len(runtime_tx')].task = d

(* a task failed without having been dispatched stays so while the run     *)
(* lasts, and no completion is produced for it                             *)
StaysWithoutProcess(d) ==
    (tasks[d].run_state = DoneFailed /\ ~ Dispatched(d) /\ run_counter' = run_counter)
        => /\ tasks'[d].run_state = DoneFailed
           /\ ~ Dispatched(d)'
           /\ ~ CompletionProduced(d)

C30_CascadeFailedNoProcess ==
    [][\A d \in Tasks : (CascadeStep(d) => ~ Dispatched(d)) /\ StaysWithoutProcess(d)]_vars

(* what holds: the later half, and the whole in the first run *)
C30_NotDispatchedLater == [][\A d \in Tasks : StaysWithoutProcess(d)]_vars

C30_FirstRun ==
    [][run_counter = 1 => \A d \in Tasks : CascadeStep(d) => ~ Dispatched(d)]_vars

(* the case is reached: a run in which a task failed and its dependent,    *)
(* never dispatched, is DoneFailed                                         *)
C30_Reached ==
    /\ current_run_id # NoRun
    /\ \E a \in Tasks : \E d \in TransDependents(a) :
          /\ tasks[a].run_state = DoneFailed /\ Dispatched(a)
          /\ tasks[d].run_state = DoneFailed /\ ~ Dispatched(d)

----------------------------------------------------------------------------
(* C31: the events of one task instance reach the core in causal order:   *)
(* a TaskProgressed caused by a line the process printed before it exited *)
(* is received before that instance's TaskCompleted. The channel is FIFO,  *)
(* so this is: when an instance sends its TaskCompleted, no line it        *)
(* printed is still unread by the monitor, and in the channel no           *)
(* TaskProgressed of an instance follows its TaskCompleted.                *)
CompletedBeforeProgressed(i) ==
    \E k, l \in DOMAIN runtime_tx :
        /\ k < l
        /\ runtime_tx[k].type = "TaskCompleted" /\ runtime_tx[k].from = i
        /\ runtime_tx[l].type = "TaskProgressed" /\ runtime_tx[l].from = i

C31_CausalOrder ==
    [][\A i \in DOMAIN runners :
          /\ Emits(i) => runners[i].unread = 0
          /\ ~ CompletedBeforeProgressed(i)']_vars

(* the case is reached: the child printed a line and exited, and the       *)
(* runner is about to send TaskCompleted                                   *)
C31_Reached ==
    \E i \in DOMAIN runners :
        runners[i].pc = "send" /\ runners[i].child = "exited" /\ runners[i].unread > 0

----------------------------------------------------------------------------
(* C32: whenever a task's per-run state becomes DoneFailed in run r, by   *)
(* its own failed completion or by the cascade from a failed upstream, its *)
(* last_failed_run equals r afterwards.                                    *)
BecomesFailed(t) ==
    /\ tasks'[t].run_state = DoneFailed
    /\ tasks[t].run_state # DoneFailed \/ run_counter' # run_counter

C32_FailureStamped ==
    [][\A t \in Tasks : BecomesFailed(t) => tasks'[t].last_failed_run = run_counter']_vars

(* what holds: the task whose own completion failed is stamped *)
C32_OwnFailureStamped ==
    [][\A t \in Tasks :
          (BecomesFailed(t) /\ StepCompletion(t, Failed(FailCode)))
              => tasks'[t].last_failed_run = run_counter']_vars

(* the case is reached: in run 2 a task failed and its dependent was       *)
(* failed by the cascade                                                   *)
C32_Reached ==
    /\ run_counter = 2
    /\ \E a \in Tasks : \E d \in TransDependents(a) :
          /\ tasks[a].run_state = DoneFailed /\ tasks[a].last_failed_run = 2
          /\ tasks[d].run_state = DoneFailed

----------------------------------------------------------------------------
(* C33: an event naming a task that is not in the configuration is        *)
(* ignored: a TaskTriggered, TaskProgressed or TaskCompleted for an        *)
(* unknown name emits no DispatchTasks and leaves current_run_id,          *)
(* run_counter, every task's per-run state and history markers and the     *)
(* trigger queue unchanged, whether the runtime is idle or a run is active. *)
UnknownNames == Names \ Tasks
Ignored ==
    /\ \A k \in DOMAIN commands' : commands'[k].kind # "DispatchTasks"
    /\ UNCHANGED <<tasks, run_counter, current_run_id, queue>>

UnknownTriggered == \E task \in UnknownNames : TrigTaskTriggered(task)
UnknownProgressed == \E task \in UnknownNames : TrigTaskProgressed(task)
UnknownCompleted ==
    \E task \in UnknownNames, outcome \in Outcomes : TrigTaskCompleted(task, outcome)

C33_UnknownTaskIgnored ==
    [][(UnknownTriggered \/ UnknownProgressed \/ UnknownCompleted) => Ignored]_vars

(* what holds: progress and completion for an unknown name are ignored,   *)
(* and so is a trigger for one while a run is active                       *)
C33_UnknownProgressIgnored == [][UnknownProgressed => Ignored]_vars
C33_UnknownCompletionIgnored == [][UnknownCompleted => Ignored]_vars
C33_UnknownTriggerIgnoredInRun ==
    [][(UnknownTriggered /\ current_run_id # NoRun) => Ignored]_vars

(* the case is reached: an unknown name was triggered while idle after a  *)
(* run, and while a run was active with a trigger queued                   *)
C33_Reached ==
    /\ UnknownNames # {}
    /\ current_run_id # NoRun
    /\ ~ queue_is_empty(queue)

----------------------------------------------------------------------------
(* C34: the FileCache is advisory. For every file event and every         *)
(* use_hash task gated on it, the aggregate computed through               *)
(* FileCache.get_or_compute equals the aggregate of the current contents   *)
(* of the task's matching files, so the decision to trigger or suppress is *)
(* the one made without a cache.                                           *)
Gated(path) == {t \in root_profiles(path) : profiles[t].use_hash}
cached_aggregate(t, path) ==
    compute_aggregate_hash(
        hash_files(collect_matching_files(t), invalidate(file_cache, path), <<>>).file_hashes)

C34_CacheAdvisory ==
    [][ProcessFileChange =>
          \A t \in Gated(Head(notify_rx)) :
              /\ cached_aggregate(t, Head(notify_rx)) = watcher_aggregate(t)
              /\ (t \in NewlySent <=> hash_store[t] # SomeDigest(watcher_aggregate(t)))]_vars

(* what holds: every cached hash is the hash of the file as it is, as long *)
(* as every written file's event gated every hashing task that matches it *)
Stale(f) == file_cache[f] # NotCached /\ file_cache[f] # compute_file_hash(f)
C34_FreshWhenAlwaysGated ==
    (\A t \in Tasks : profiles[t].use_hash =>
        \A f \in profiles[t].watch : t \in root_profiles(f))
    => \A f \in Files : Stale(f) => \E k \in DOMAIN notify_rx : notify_rx[k] = f

(* the case is reached: a hashing task is gated on an event for one file  *)
(* while the cached hash of another of its files is stale                  *)
C34_Reached ==
    /\ notify_rx # <<>>
    /\ \E t \in Gated(Head(notify_rx)) :
          \E f \in profiles[t].watch \ {Head(notify_rx)} : Stale(f)

----------------------------------------------------------------------------
(* C35: hash gating fails open.  Whatever step of a gating fails before    *)
(* the comparison (enumerating the files, locking the cache or the store,  *)
(* hashing a file, loading the stored digest, a panic of the blocking      *)
(* job), the task is triggered; a failed save does not suppress a trigger; *)
(* a trigger is suppressed only when the stored digest was loaded and      *)
(* equals the newly computed one.                                          *)
NewDigest(t, path) ==
    compute_aggregate_hash(hash_files(collect_matching_files(t),
                                      invalidate(file_cache, path), <<>>).file_hashes)

StoredEqualsNew(t, path) == hash_store[t] = SomeDigest(NewDigest(t, path))

SentBy(t) ==
    \E k \in Len(runtime_tx) + 1 .. Len(runtime_tx') :
        runtime_tx'[k] = TaskTriggeredEvent(t)

(* a step of ProcessFileChangeOrFail: the next path leaves the channel *)
Gates == notify_rx # <<>> /\ notify_rx' = Tail(notify_rx) /\ seed'.via = "gate"

C35_GatingFailsOpen ==
    [][Gates =>
          \A t \in root_profiles(Head(notify_rx)) :
             SentBy(t) <=> ~ ( /\ profiles[t].use_hash
                               /\ t \notin Range(seed'.from)
                               /\ StoredEqualsNew(t, Head(notify_rx)) )]_vars

(* the case is reached: the gating of a task failed, the stored digest is  *)
(* that of the files as they are, and the trigger was sent all the same    *)
C35_FailedOpen ==
    /\ seed.via = "gate"
    /\ \E k \in DOMAIN seed.from :
          /\ hash_store[seed.from[k]] = SomeDigest(watcher_aggregate(seed.from[k]))
          /\ runtime_tx # <<>>
          /\ runtime_tx[Len(runtime_tx)] = TaskTriggeredEvent(seed.from[k])

----------------------------------------------------------------------------
(* C36: a task is dispatched at most once per run.  Within a run a task    *)
(* that has been dispatched (it is Running or done) is never Pending or    *)
(* out of the run again, and a step schedules only tasks that were not     *)
(* yet dispatched in the run, each with the id of the run; so no run id    *)
(* and task name are scheduled twice.                                      *)
DispatchedInRun(t) == tasks[t].run_state \in {Running, DoneSuccess, DoneFailed}

SameRun == current_run_id # NoRun /\ current_run_id' = current_run_id

C36_DispatchedOncePerRun ==
    [][\A t \in Tasks :
          /\ (SameRun /\ DispatchedInRun(t)) =>
                /\ DispatchedInRun(t)'
                /\ t \notin NamesOf(step'.newly_scheduled)
          /\ \A st \in step'.newly_scheduled :
                /\ st.run_id = current_run_id'
                /\ tasks'[st.name].run_state = Running
          /\ Cardinality(NamesOf(step'.newly_scheduled)) = Cardinality(step'.newly_scheduled)]_vars

(* the case is reached: in the second run A has succeeded, B has just been *)
(* dispatched, and nothing else was scheduled by the step                  *)
C36_Witness ==
    /\ current_run_id = 2
    /\ tasks["A"].run_state = DoneSuccess
    /\ NamesOf(step.newly_scheduled) = {"B"}
    /\ tasks["B"].run_state = Running

(* the same over the log of a run of the runtime loop: no task has two     *)
(* dispatches in the log of one run                                        *)
C36_LoggedOncePerRun ==
    \A i, j \in DOMAIN run_log :
        (run_log[i] = run_log[j] /\ run_log[i].ev = "dispatch") => i = j

----------------------------------------------------------------------------
(* C37: progress events do not leak across runs or onto tasks that are not *)
(* running.  When the runtime takes a TaskProgressed off its channel, the  *)
(* scheduler state does not change if the event comes from an instance     *)
(* dispatched in another run than the current one, or if the task is       *)
(* Absent or Pending in the current run.                                   *)
ProgressTaken ==
    /\ runtime_tx # <<>>
    /\ Head(runtime_tx).type = "TaskProgressed"
    /\ runtime_tx' = Tail(runtime_tx)

FromOtherRun(e) == e.from # 0 /\ runners[e.from].run_id # current_run_id

NotRunningInRun(e) == e.task \in Tasks /\ EffectiveState(e.task) \in {Absent, Pending}

C37_ProgressStaysInRun ==
    [][ProgressTaken =>
          ((FromOtherRun(Head(runtime_tx)) \/ NotRunningInRun(Head(runtime_tx)))
              => UNCHANGED <<tasks, run_counter, current_run_id>>)]_vars

(* what the code does keep: with no run active a TaskProgressed changes    *)
(* nothing                                                                 *)
C37_ProgressIgnoredWhenIdle ==
    [][(ProgressTaken /\ current_run_id = NoRun)
          => UNCHANGED <<tasks, run_counter, current_run_id>>]_vars

(* the case is reached: a run is active and the next event is a            *)
(* TaskProgressed of an instance dispatched in an earlier run              *)
C37_Reached ==
    /\ current_run_id # NoRun
    /\ runtime_tx # <<>>
    /\ Head(runtime_tx).type = "TaskProgressed"
    /\ FromOtherRun(Head(runtime_tx))

----------------------------------------------------------------------------
(* C38: after every CoreRuntime.step, if the scheduler is idle then the    *)
(* trigger queue is empty; a step taken with triggers queued leaves a run  *)
(* active, and if it finished the run it has started the next one from the *)
(* queue, which it emptied.                                                *)
C38_IdleImpliesQueueEmpty == is_idle(Sched) => queue_is_empty(queue)

C38_QueuedRunStartsInSameStep ==
    [][~ queue_is_empty(queue) =>
          /\ current_run_id' # NoRun
          /\ current_run_id' # current_run_id =>
                /\ current_run_id' = run_counter'
                /\ queue_is_empty(queue')]_vars

C38_NoStrandedTrigger == [] C38_IdleImpliesQueueEmpty /\ C38_QueuedRunStartsInSameStep

(* the case is reached: the step that finished run 1 started run 2 from    *)
(* the triggers deferred during run 1, and the queue is empty              *)
C38_Witness ==
    /\ seed.via = "queue"
    /\ seed.from # <<>>
    /\ current_run_id = 2
    /\ queue_is_empty(queue)

----------------------------------------------------------------------------
(* C39: a task is never dispatched on the strength of a dependency whose   *)
(* most recent outcome is a failure.  Whenever a step schedules a task,    *)
(* none of its dependencies is outside the run with DoneFailed as the      *)
(* terminal state it reached last.                                         *)
FailedLast(d) == tasks[d].run_state = Absent /\ LastOutcome(d) = "failed"

C39_NoDispatchOnFailedDependency ==
    [][\A t \in Tasks :
          t \in NamesOf(step'.newly_scheduled) =>
             \A d \in Range(graph.deps[t]) : ~ FailedLast(d)']_vars

(* what the code does ensure: a dependency outside the run that has never  *)
(* succeeded blocks the dispatch                                           *)
C39_NeverSucceededBlocks ==
    [][\A t \in Tasks :
          t \in NamesOf(step'.newly_scheduled) =>
             \A d \in Range(graph.deps[t]) :
                tasks'[d].run_state = Absent => tasks'[d].last_successful_run # NoRun]_vars

(* the case is reached: a run is active in which a dependency of B is      *)
(* absent and failed last                                                  *)
C39_Reached ==
    /\ current_run_id # NoRun
    /\ tasks["B"].run_state = Pending
    /\ FailedLast("A")

----------------------------------------------------------------------------
(* C40: the runtime loop and the executor loop never deadlock on their     *)
(* bounded channels: it never happens that the runtime awaits capacity on  *)
(* the executor channel while the executor loop awaits capacity on the     *)
(* runtime channel.                                                        *)
RuntimeAwaitsCapacity == commands # <<>> /\ Len(exec_rx) >= MaxChan

ExecutorAwaitsCapacity == exec_hand # <<>> /\ Len(runtime_tx) >= MaxChan

C40_CircularWaitIsFinal ==
    [][(RuntimeAwaitsCapacity /\ ExecutorAwaitsCapacity)
          => UNCHANGED <<exec_rx, runtime_tx, commands, exec_hand, schedVars>>]_vars

(* the case is reached: the runtime awaits capacity on the executor        *)
(* channel with a task still to send                                       *)
C40_Reached == RuntimeAwaitsCapacity /\ runtime_tx # <<>>

====
